---- MODULE Spec2Model ----
(***************************************************************************)
(* A model of the four-layer slide generation pipeline of the              *)
(* slidev-builder-mcp repository: ContentIntelligenceEngine,               *)
(* LayoutOptimizationEngine, AssetIntelligenceEngine,                      *)
(* StyleOrchestrationEngine and SlidevBuilderOrchestrator.                 *)
(*                                                                         *)
(* Strings are sequences of one-character strings, so that toLowerCase,   *)
(* includes, split and length are computed and not assumed.  A content     *)
(* string is kept as the list of its space-free pieces (what               *)
(* content.split(' ') returns): every string is the join of exactly one    *)
(* non-empty list of such pieces, the empty string being the list that     *)
(* holds one empty piece.  Long contents are written run-length encoded:   *)
(* [fill |-> n, tail |-> t] is n copies of the piece "data" followed by    *)
(* the pieces of t.                                                        *)
(*                                                                         *)
(* Numbers of the source that are fractions (scores) are integers here,    *)
(* in units of 1/ONE, so that every sum, mean and product the code takes   *)
(* is exact.                                                               *)
(***************************************************************************)
EXTENDS Integers, Sequences, FiniteSets, TLC

VARIABLES
    c_pc,       \* analyzeContent call: "call" | "done" | "off"
    c_content,  \* its content argument
    c_audience, \* its audience argument
    c_ret,      \* its ContentAnalysisResult
    l_pc,       \* recommendLayout call: "call" | "done" | "off"
    l_args,     \* its arguments: slideType, contentDensity, audience, hasVisuals
    l_ret,      \* its LayoutRecommendation
    a_pc,       \* curateAssets call: "unsplash" | "iconify" | "freepik" |
                \* "combine" | "done" | "off"
    a_query,    \* its AssetQuery
    a_locals,   \* its locals searchTerms, styleFilter, unsplashAssets,
                \* iconifyAssets, freepikAssets
    a_ret,      \* its AssetRecommendation
    s_pc,       \* generateStyleRecommendation call: "call" | "done" | "off"
    s_args,     \* its arguments: slideType, audience, contentDensity,
                \* brandGuidelines
    s_ret,      \* its StyleRecommendation
    d_pc,       \* generateSlideDeck call: "analyze" | "slides" | "done" |
                \* "threw" | "off"
    d_request,  \* its SlideGenerationRequest
    d_analysis, \* its contentAnalysis
    d_slides,   \* its slides
    d_ret,      \* its SlideGenerationResult
    k_calls,    \* generateSlideDeck calls in flight together: for each call
                \* its position and its locals
    k_static,   \* the static members the calls read: the layout catalog and
                \* the brand token catalog
    p_pc,       \* initialize_project call: "tool" | "mkdir" | "story" |
                \* "main" | "idea" | "slides" | "assets" | "config" |
                \* "result" | "done" | "off"
    p_args,     \* the arguments of the tool, after the schema's defaults
    p_request,  \* the ProjectInitializationRequest built from them
    p_steps,    \* stepsCompleted of ProcessOrchestrator.initializeProject
    p_result,   \* what ProcessOrchestrator.initializeProject returns
    p_ret,      \* what the tool returns
    v_pc,       \* validateAccessibility call: "call" | "done" | "off"
    v_theme,    \* its StyleTheme
    v_ret,      \* what it returns: score and issues
    o_pc,       \* generateOptimizationSuggestions call: "call" | "done" | "off"
    o_args,     \* its slides, metrics and request
    o_ret       \* the suggestions it returns

contentVars == <<c_pc, c_content, c_audience, c_ret>>
layoutVars == <<l_pc, l_args, l_ret>>
assetVars == <<a_pc, a_query, a_locals, a_ret>>
styleVars == <<s_pc, s_args, s_ret>>
deckVars == <<d_pc, d_request, d_analysis, d_slides, d_ret>>
concVars == <<k_calls, k_static>>
projVars == <<p_pc, p_args, p_request, p_steps, p_result, p_ret>>
validVars == <<v_pc, v_theme, v_ret>>
suggestVars == <<o_pc, o_args, o_ret>>
vars == <<contentVars, layoutVars, assetVars, styleVars, deckVars, concVars,
          projVars, validVars, suggestVars>>

-----------------------------------------------------------------------------
(* Bounds of the model.                                                    *)

\* the longest tail of a generated content string, in pieces
MaxTail == 3

\* the most candidates one asset provider returns for one search
MaxPerSource == 2

\* the pieces that follow the filling in the content of a deck request: at most
MaxDeckTail == 3

\* the tokens of a theme handed to validateAccessibility: at most
MaxTokens == 2

\* the generateSlideDeck calls in flight together: at most
NumCalls == 2

-----------------------------------------------------------------------------
(* Strings.                                                                *)

S_problem == <<"p", "r", "o", "b", "l", "e", "m">>
S_challenge == <<"c", "h", "a", "l", "l", "e", "n", "g", "e">>
S_solution == <<"s", "o", "l", "u", "t", "i", "o", "n">>
S_approach == <<"a", "p", "p", "r", "o", "a", "c", "h">>
S_result == <<"r", "e", "s", "u", "l", "t">>
S_benefit == <<"b", "e", "n", "e", "f", "i", "t">>
S_premium == <<"p", "r", "e", "m", "i", "u", "m">>
S_political == <<"p", "o", "l", "i", "t", "i", "c", "a", "l">>
S_religious == <<"r", "e", "l", "i", "g", "i", "o", "u", "s">>
S_controversial == <<"c", "o", "n", "t", "r", "o", "v", "e", "r", "s", "i", "a", "l">>
S_professional == <<"p", "r", "o", "f", "e", "s", "s", "i", "o", "n", "a", "l">>
S_business == <<"b", "u", "s", "i", "n", "e", "s", "s">>
S_strategy == <<"s", "t", "r", "a", "t", "e", "g", "y">>
S_growth == <<"g", "r", "o", "w", "t", "h">>
S_innovation == <<"i", "n", "n", "o", "v", "a", "t", "i", "o", "n">>
S_technology == <<"t", "e", "c", "h", "n", "o", "l", "o", "g", "y">>
S_service == <<"s", "e", "r", "v", "i", "c", "e">>
S_data == <<"d", "a", "t", "a">>
S_Problem == <<"P", "r", "o", "b", "l", "e", "m">>
S_RESULTS == <<"R", "E", "S", "U", "L", "T", "S">>
S_empty == <<>>
S_image == <<"i", "m", "a", "g", "e">>
S_icon == <<"i", "c", "o", "n">>
S_illustration == <<"i", "l", "l", "u", "s", "t", "r", "a", "t", "i", "o", "n">>
S_undefined == <<"u", "n", "d", "e", "f", "i", "n", "e", "d">>
S_with == <<"w", "i", "t", "h">>
S_their == <<"t", "h", "e", "i", "r">>
S_plan == <<"p", "l", "a", "n">>
S_Professional == <<"P", "r", "o", "f", "e", "s", "s", "i", "o", "n", "a", "l">>
S_Premium == <<"P", "r", "e", "m", "i", "u", "m">>
S_the == <<"t", "h", "e">>
S_Strategy_ == <<"S", "t", "r", "a", "t", "e", "g", "y", ",">>

UpperCase == <<"A","B","C","D","E","F","G","H","I","J","K","L","M",
               "N","O","P","Q","R","S","T","U","V","W","X","Y","Z">>
LowerCase == <<"a","b","c","d","e","f","g","h","i","j","k","l","m",
               "n","o","p","q","r","s","t","u","v","w","x","y","z">>

toLowerCaseChar(ch) ==
    IF \E i \in 1..26 : UpperCase[i] = ch
    THEN LowerCase[CHOOSE i \in 1..26 : UpperCase[i] = ch]
    ELSE ch

\* String.prototype.toLowerCase on a space-free piece
toLowerCase(s) == [i \in 1..Len(s) |-> toLowerCaseChar(s[i])]

\* String.prototype.includes
includes(s, sub) ==
    \E i \in 0..(Len(s) - Len(sub)) : \A j \in 1..Len(sub) : s[i + j] = sub[j]

Min(a, b) == IF a <= b THEN a ELSE b

\* the unit of the scores: 1.0 is ONE, 0.01 is Pct(1)
ONE == 100 * 9600
Pct(n) == n * (ONE \div 100)

\* content.split(' ').length: the number of pieces of the content
splitLength(content) == content.fill + Len(content.tail)

\* the i-th piece of content.split(' ')
pieceAt(content, i) ==
    IF i <= content.fill THEN S_data ELSE content.tail[i - content.fill]

\* the distinct pieces of the content
pieceSet(content) ==
    (IF content.fill > 0 THEN {S_data} ELSE {})
        \cup {content.tail[i] : i \in 1..Len(content.tail)}

\* content.toLowerCase().includes(key), for a key that holds no space: a
\* match lies inside one piece
lowerIncludes(content, key) ==
    \E p \in pieceSet(content) : includes(toLowerCase(p), key)

\* content.includes(key), for a key that holds no space
contentIncludes(content, key) ==
    \E p \in pieceSet(content) : includes(p, key)

-----------------------------------------------------------------------------
(* Layer 1: ContentIntelligenceEngine.                                     *)

hero_points ==
    << <<"T", "i", "t", "l", "e">>,
       <<"S", "u", "b", "t", "i", "t", "l", "e">>,
       <<"K", "e", "y", " ", "v", "a", "l", "u", "e", " ", "p", "r", "o", "p", "o", "s", "i", "t", "i", "o", "n">> >>

problem_points ==
    << <<"P", "r", "o", "b", "l", "e", "m", " ", "s", "t", "a", "t", "e", "m", "e", "n", "t">>,
       <<"C", "u", "r", "r", "e", "n", "t", " ", "s", "t", "a", "t", "e", " ", "c", "h", "a", "l", "l", "e", "n", "g", "e", "s">>,
       <<"I", "m", "p", "a", "c", "t", " ", "q", "u", "a", "n", "t", "i", "f", "i", "c", "a", "t", "i", "o", "n">> >>

solution_points ==
    << <<"S", "o", "l", "u", "t", "i", "o", "n", " ", "o", "v", "e", "r", "v", "i", "e", "w">>,
       <<"K", "e", "y", " ", "f", "e", "a", "t", "u", "r", "e", "s">>,
       <<"I", "m", "p", "l", "e", "m", "e", "n", "t", "a", "t", "i", "o", "n", " ", "a", "p", "p", "r", "o", "a", "c", "h">> >>

evidence_points ==
    << <<"K", "e", "y", " ", "r", "e", "s", "u", "l", "t", "s">>,
       <<"S", "u", "c", "c", "e", "s", "s", " ", "m", "e", "t", "r", "i", "c", "s">>,
       <<"V", "a", "l", "i", "d", "a", "t", "i", "o", "n", " ", "p", "o", "i", "n", "t", "s">> >>

action_points ==
    << <<"N", "e", "x", "t", " ", "s", "t", "e", "p", "s">>,
       <<"C", "a", "l", "l", " ", "t", "o", " ", "a", "c", "t", "i", "o", "n">>,
       <<"C", "o", "n", "t", "a", "c", "t", " ", "i", "n", "f", "o", "r", "m", "a", "t", "i", "o", "n">> >>

\* the SlideRecommendation literals of generateSlideRecommendations
heroSlide ==
    [slide_type |-> "hero", priority |-> 1, estimated_time |-> 30,
     content_points |-> hero_points]
problemSlide ==
    [slide_type |-> "problem", priority |-> 2, estimated_time |-> 60,
     content_points |-> problem_points]
solutionSlide ==
    [slide_type |-> "solution", priority |-> 3, estimated_time |-> 90,
     content_points |-> solution_points]
evidenceSlide ==
    [slide_type |-> "evidence", priority |-> 4, estimated_time |-> 60,
     content_points |-> evidence_points]
actionSlide ==
    [slide_type |-> "action", priority |-> 5, estimated_time |-> 45,
     content_points |-> action_points]

\* a slip: the triggers are looked up in the content as written, not in
\* content.toLowerCase()
generateSlideRecommendations_caseSensitive(content, audience) ==
    <<heroSlide>>
    \o (IF contentIncludes(content, S_problem) \/ contentIncludes(content, S_challenge)
        THEN <<problemSlide>> ELSE <<>>)
    \o (IF contentIncludes(content, S_solution) \/ contentIncludes(content, S_approach)
        THEN <<solutionSlide>> ELSE <<>>)
    \o (IF contentIncludes(content, S_result) \/ contentIncludes(content, S_benefit)
        THEN <<evidenceSlide>> ELSE <<>>)
    \o <<actionSlide>>

\* a slip: the call to action is pushed before the evidence block
generateSlideRecommendations_actionEarly(content, audience) ==
    <<heroSlide>>
    \o (IF lowerIncludes(content, S_problem) \/ lowerIncludes(content, S_challenge)
        THEN <<problemSlide>> ELSE <<>>)
    \o (IF lowerIncludes(content, S_solution) \/ lowerIncludes(content, S_approach)
        THEN <<solutionSlide>> ELSE <<>>)
    \o <<actionSlide>>
    \o (IF lowerIncludes(content, S_result) \/ lowerIncludes(content, S_benefit)
        THEN <<evidenceSlide>> ELSE <<>>)

\* generateSlideRecommendations: hero, then the triggered slides, then action
generateSlideRecommendations(content, audience) ==
    <<heroSlide>>
    \o (IF lowerIncludes(content, S_problem) \/ lowerIncludes(content, S_challenge)
        THEN <<problemSlide>> ELSE <<>>)
    \o (IF lowerIncludes(content, S_solution) \/ lowerIncludes(content, S_approach)
        THEN <<solutionSlide>> ELSE <<>>)
    \o (IF lowerIncludes(content, S_result) \/ lowerIncludes(content, S_benefit)
        THEN <<evidenceSlide>> ELSE <<>>)
    \o <<actionSlide>>

\* the cognitive_load_score of analyzeContent
cognitiveLoadScore(content) == Min(10, splitLength(content) \div 50)

\* a slip: the boundary of "high" taken at >= 7
content_density_inclusive(score) ==
    IF score >= 7 THEN "high" ELSE IF score > 4 THEN "medium" ELSE "low"

\* the content_density of analyzeContent
content_density(score) ==
    IF score > 7 THEN "high" ELSE IF score > 4 THEN "medium" ELSE "low"

\* analyzeContent.  key_messages is left out of the result: it is a function
\* of the content alone and nothing downstream reads it (generateSlideTitle
\* ignores its second argument).
analyzeContent(content, audience) ==
    LET cognitive_load_score == cognitiveLoadScore(content)
    IN  [content_structure |->
            [narrative_flow |-> IF audience = "executive"
                                THEN "pyramid_principle" ELSE "problem_solution",
             information_hierarchy |-> "primary",
             cognitive_load_score |-> cognitive_load_score,
             messaging_framework |-> "mckinsey_scce"],
         audience_adaptation |-> audience,
         slide_recommendations |-> generateSlideRecommendations(content, audience),
         content_density |-> content_density(cognitive_load_score)]

-----------------------------------------------------------------------------
(* Layer 2: LayoutOptimizationEngine.                                      *)

\* the static catalog LayoutOptimizationEngine.layouts (best_for, which
\* nothing reads, is left out)
layouts ==
    << [name |-> "hero-centered", grid_system |-> "flexbox",
        visual_hierarchy |-> "center-focused", layout_type |-> "hero",
        responsive_breakpoints |-> <<"mobile", "tablet", "desktop">>],
       [name |-> "content-split", grid_system |-> "12-column",
        visual_hierarchy |-> "Z-pattern", layout_type |-> "split",
        responsive_breakpoints |-> <<"tablet", "desktop">>],
       [name |-> "information-grid", grid_system |-> "css-grid",
        visual_hierarchy |-> "F-pattern", layout_type |-> "grid",
        responsive_breakpoints |-> <<"mobile", "tablet", "desktop">>],
       [name |-> "process-timeline", grid_system |-> "flexbox",
        visual_hierarchy |-> "left-aligned", layout_type |-> "timeline",
        responsive_breakpoints |-> <<"tablet", "desktop">>],
       [name |-> "comparison-table", grid_system |-> "12-column",
        visual_hierarchy |-> "F-pattern", layout_type |-> "comparison",
        responsive_breakpoints |-> <<"tablet", "desktop">>],
       [name |-> "process-flow", grid_system |-> "flexbox",
        visual_hierarchy |-> "Z-pattern", layout_type |-> "process_flow",
        responsive_breakpoints |-> <<"tablet", "desktop">>] >>

\* what Array.prototype.find returns when no element matches
undefined == [undefined |-> TRUE]

\* a slip: the split layout is looked up under the name of the timeline
findLayout_timelineForSplit(name) ==
    LET wanted == IF name = "content-split" THEN "process-timeline" ELSE name
    IN  layouts[CHOOSE i \in 1..Len(layouts) : layouts[i].name = wanted]

\* this.layouts.find(l => l.name === name)
findLayout(name) ==
    IF \E i \in 1..Len(layouts) : layouts[i].name = name
    THEN layouts[CHOOSE i \in 1..Len(layouts) :
                    /\ layouts[i].name = name
                    /\ \A j \in 1..(i - 1) : layouts[j].name # name]
    ELSE undefined

\* array.includes(x)
arrayIncludes(arr, x) == \E i \in 1..Len(arr) : arr[i] = x

\* a slip: the mobile boost is given to every layout
calculateAccessibilityScore_mobileAlways(layout, audience) ==
    LET s1 == Pct(80) + Pct(10)
        s2 == IF layout.visual_hierarchy \in {"F-pattern", "Z-pattern"}
              THEN s1 + Pct(10) ELSE s1
        s3 == IF audience = "executive" /\ layout.layout_type = "hero"
              THEN s2 + Pct(5) ELSE s2
    IN  Min(ONE, s3)

\* calculateAccessibilityScore
calculateAccessibilityScore(layout, audience) ==
    LET s0 == Pct(80)
        s1 == IF arrayIncludes(layout.responsive_breakpoints, "mobile")
              THEN s0 + Pct(10) ELSE s0
        s2 == IF layout.visual_hierarchy \in {"F-pattern", "Z-pattern"}
              THEN s1 + Pct(10) ELSE s1
        s3 == IF audience = "executive" /\ layout.layout_type = "hero"
              THEN s2 + Pct(5) ELSE s2
    IN  Min(ONE, s3)

\* LayoutOptimizationEngine.generateCSSFramework: the template of the grid
\* system, line by line
layoutCSSFramework(layout) ==
    CASE layout.grid_system = "12-column" ->
            << ".slide-container {", "display: grid;",
               "grid-template-columns: repeat(12, 1fr);", "gap: 1rem;",
               "padding: 2rem;", "}" >>
      [] layout.grid_system = "flexbox" ->
            << ".slide-container {", "display: flex;", "flex-direction: column;",
               "align-items: center;", "justify-content: center;",
               "padding: 2rem;", "min-height: 100vh;", "}" >>
      [] layout.grid_system = "css-grid" ->
            << ".slide-container {", "display: grid;", "grid-template-areas:",
               "\"header header header\"", "\"content content sidebar\"",
               "\"footer footer footer\";", "gap: 1.5rem;", "padding: 2rem;", "}" >>
      [] OTHER ->
            << ".slide-container {", "display: flex;", "flex-direction: column;",
               "padding: 2rem;", "}" >>

\* the switch of recommendLayout: the layout found, its confidence, the reason
selectLayout(slideType, contentDensity, hasVisuals) ==
    CASE slideType = "hero" ->
            [layout |-> findLayout("hero-centered"), confidence_score |-> Pct(95),
             reason |-> "Hero layout optimal for opening slides and key messages"]
      [] slideType \in {"problem", "solution"} ->
            IF hasVisuals
            THEN [layout |-> findLayout("content-split"), confidence_score |-> Pct(90),
                  reason |-> "Split layout ideal for problem/solution with supporting visuals"]
            ELSE [layout |-> findLayout("hero-centered"), confidence_score |-> Pct(80),
                  reason |-> "Centered layout for text-heavy problem/solution slides"]
      [] slideType = "evidence" ->
            IF contentDensity = "high"
            THEN [layout |-> findLayout("information-grid"), confidence_score |-> Pct(85),
                  reason |-> "Grid layout handles high-density evidence effectively"]
            ELSE [layout |-> findLayout("content-split"), confidence_score |-> Pct(80),
                  reason |-> "Split layout for evidence with supporting visuals"]
      [] slideType = "comparison" ->
            [layout |-> findLayout("comparison-table"), confidence_score |-> Pct(90),
             reason |-> "Comparison layout optimized for side-by-side analysis"]
      [] slideType \in {"process", "workflow"} ->
            [layout |-> findLayout("process-flow"), confidence_score |-> Pct(88),
             reason |-> "Process flow layout ideal for step-by-step content"]
      [] OTHER ->
            IF contentDensity = "high"
            THEN [layout |-> findLayout("information-grid"), confidence_score |-> Pct(70),
                  reason |-> "Grid layout for high-density content"]
            ELSE [layout |-> findLayout("content-split"), confidence_score |-> Pct(75),
                  reason |-> "Split layout as versatile default"]

\* what a call leaves behind when it throws
Thrown == [threw |-> TRUE]

\* the tail of recommendLayout: the accessibility score and the returned
\* record.  Reading a property of an undefined layout throws a TypeError.
layoutRecommendation(sel, audience) ==
    IF sel.layout = undefined
    THEN Thrown
    ELSE [threw |-> FALSE,
          pattern |-> sel.layout,
          confidence_score |-> sel.confidence_score,
          accessibility_score |-> calculateAccessibilityScore(sel.layout, audience),
          reason |-> sel.reason,
          css_framework |-> layoutCSSFramework(sel.layout)]

\* a slip: the case label 'workflow' is missing, so workflow slides take the
\* default branch
recommendLayout_noWorkflow(slideType, contentDensity, audience, hasVisuals) ==
    layoutRecommendation(
        selectLayout(IF slideType = "workflow" THEN "unlisted" ELSE slideType,
                     contentDensity, hasVisuals),
        audience)

\* recommendLayout
recommendLayout(slideType, contentDensity, audience, hasVisuals) ==
    layoutRecommendation(selectLayout(slideType, contentDensity, hasVisuals), audience)

-----------------------------------------------------------------------------
(* Layer 3: AssetIntelligenceEngine.                                       *)

Digits == {"0", "1", "2", "3", "4", "5", "6", "7", "8", "9"}

\* the class \w of a regular expression
isWordChar(ch) ==
    \/ \E i \in 1..26 : UpperCase[i] = ch \/ LowerCase[i] = ch
    \/ ch \in Digits
    \/ ch = "_"

\* s.replace(/[^\w\s]/g, '') on a space-free piece
stripNonWord(s) == SelectSeq(s, isWordChar)

\* [...new Set(seq)]: the first occurrence of every element, in order
RECURSIVE uniqueInOrder(_)
uniqueInOrder(seq) ==
    IF seq = <<>> THEN <<>>
    ELSE LET front == uniqueInOrder(SubSeq(seq, 1, Len(seq) - 1))
             last == seq[Len(seq)]
         IN  IF arrayIncludes(front, last) THEN front ELSE Append(front, last)

\* array.slice(0, n)
sliceTo(seq, n) == SubSeq(seq, 1, Min(n, Len(seq)))

commonWords ==
    {<<"t","h","e">>, <<"a","n","d">>, <<"o","r">>, <<"b","u","t">>, <<"i","n">>,
     <<"o","n">>, <<"a","t">>, <<"t","o">>, <<"f","o","r">>, <<"o","f">>,
     S_with, <<"b","y">>}

businessTermList ==
    {S_business, S_strategy, S_growth, S_innovation, S_technology, S_solution,
     S_service}

\* the filter of extractSearchTerms
isSearchWord(word) == Len(word) > 3 /\ word \notin commonWords

\* extractSearchTerms.  The words are the cleaned pieces that pass the filter
\* (pieces that are empty after cleaning are among those the filter drops, so
\* splitting on /\s+/ and on ' ' give the same words); the "data" pieces of
\* the fill are words, are unchanged by the cleaning and are no business
\* terms, so only the first five of them are ever read.
extractSearchTerms(content) ==
    LET cleaned == [i \in 1..Len(content.tail) |->
                        stripNonWord(toLowerCase(content.tail[i]))]
        tailWords == SelectSeq(cleaned, isSearchWord)
        fillWords == [i \in 1..Min(content.fill, 5) |-> S_data]
        businessTerms == SelectSeq(tailWords, LAMBDA w : w \in businessTermList)
        firstWords == sliceTo(fillWords \o tailWords, 5)
        uniqueTerms == uniqueInOrder(businessTerms \o firstWords)
    IN  sliceTo(uniqueTerms, 10)

\* getStyleFilter
getStyleFilter(style) ==
    LET professional ==
            [color |-> "blue", orientation |-> "landscape",
             keywords |-> <<"business", "corporate", "professional", "clean", "minimal">>]
    IN  CASE style = "professional" -> professional
          [] style = "casual" ->
                [color |-> "null", orientation |-> "null",
                 keywords |-> <<"friendly", "approachable", "modern", "colorful">>]
          [] style = "technical" ->
                [color |-> "black_and_white", orientation |-> "landscape",
                 keywords |-> <<"technical", "engineering", "data", "diagram", "schematic">>]
          [] style = "creative" ->
                [color |-> "null", orientation |-> "null",
                 keywords |-> <<"creative", "artistic", "innovative", "unique", "bold">>]
          [] OTHER -> professional

\* terms.join(' ') as the pieces of the joined string
joinPieces(terms) == IF terms = <<>> THEN <<S_empty>> ELSE terms

\* the mock answer of searchUnsplash
searchUnsplash(terms, styleFilter) ==
    << [id |-> <<"unsplash_", 1>>, type |-> "image", source |-> "unsplash",
        url |-> <<"https://images.unsplash.com/example">>,
        alt_text |-> <<S_Professional>> \o joinPieces(terms) \o <<S_image>>,
        tags |-> terms,
        semantic_score |-> Pct(80),
        brand_compliance |-> TRUE,
        cultural_appropriateness |-> TRUE,
        license |-> "free"] >>

\* a slip: one icon for every term
searchIconify_everyTerm(terms) ==
    [index \in 1..Len(terms) |->
        [id |-> <<"iconify_", index - 1>>, type |-> "icon", source |-> "iconify",
         url |-> <<"https://api.iconify.design/mdi/", terms[index], ".svg">>,
         alt_text |-> <<terms[index], S_icon>>,
         tags |-> <<terms[index]>>,
         semantic_score |-> Pct(90),
         brand_compliance |-> TRUE,
         cultural_appropriateness |-> TRUE,
         license |-> "free"]]

\* the mock answer of searchIconify: one icon for each of the first 3 terms
searchIconify(terms) ==
    [index \in 1..Min(3, Len(terms)) |->
        [id |-> <<"iconify_", index - 1>>, type |-> "icon", source |-> "iconify",
         url |-> <<"https://api.iconify.design/mdi/", terms[index], ".svg">>,
         alt_text |-> <<terms[index], S_icon>>,
         tags |-> <<terms[index]>>,
         semantic_score |-> Pct(90),
         brand_compliance |-> TRUE,
         cultural_appropriateness |-> TRUE,
         license |-> "free"]]

\* the mock answer of searchFreepik
searchFreepik(terms, styleFilter) ==
    << [id |-> <<"freepik_", 1>>, type |-> "image", source |-> "freepik",
        url |-> <<"https://freepik.com/example">>,
        alt_text |-> <<S_Premium, IF terms = <<>> THEN S_undefined ELSE terms[1],
                       S_illustration>>,
        tags |-> terms,
        semantic_score |-> Pct(85),
        brand_compliance |-> TRUE,
        cultural_appropriateness |-> TRUE,
        license |-> "premium"] >>

\* the score scoreAssets gives one asset
assetScore(asset, query) ==
    LET s0 == asset.semantic_score
        s1 == IF query.slide_type = "hero" /\ asset.type = "image"
              THEN s0 + Pct(10)
              ELSE IF query.slide_type = "process" /\ asset.type = "icon"
                   THEN s0 + Pct(15) ELSE s0
        s2 == IF query.target_audience = "executive"
                 /\ arrayIncludes(asset.tags, S_professional)
              THEN s1 + Pct(10) ELSE s1
        s3 == IF asset.license = "premium"
                 /\ ~contentIncludes(query.content_context, S_premium)
              THEN s2 - Pct(5) ELSE s2
    IN  Min(ONE, s3)

\* scoreAssets: a new object for every asset, in the same order.  ref is the
\* identity of the new object (its position), which is what
\* Array.prototype.includes compares.
scoreAssets(assets, query) ==
    [i \in 1..Len(assets) |->
        [ref |-> i,
         id |-> assets[i].id, type |-> assets[i].type, source |-> assets[i].source,
         url |-> assets[i].url, alt_text |-> assets[i].alt_text,
         tags |-> assets[i].tags,
         semantic_score |-> assetScore(assets[i], query),
         brand_compliance |-> assets[i].brand_compliance,
         cultural_appropriateness |-> assets[i].cultural_appropriateness,
         license |-> assets[i].license]]

\* assets.sort((a, b) => b.semantic_score - a.semantic_score): descending and
\* stable
RECURSIVE sortByScoreDescending(_)
sortByScoreDescending(assets) ==
    IF assets = <<>> THEN <<>>
    ELSE LET best == CHOOSE i \in 1..Len(assets) :
                        /\ \A j \in 1..Len(assets) :
                               assets[j].semantic_score <= assets[i].semantic_score
                        /\ \A j \in 1..(i - 1) :
                               assets[j].semantic_score < assets[i].semantic_score
             rest == [k \in 1..(Len(assets) - 1) |->
                        IF k < best THEN assets[k] ELSE assets[k + 1]]
         IN  <<assets[best]>> \o sortByScoreDescending(rest)

\* recommendedAssets.includes(asset): the same object
includesObject(assets, asset) == \E i \in 1..Len(assets) : assets[i].ref = asset.ref

RECURSIVE sumScores(_)
sumScores(assets) ==
    IF assets = <<>> THEN 0
    ELSE assets[1].semantic_score + sumScores(Tail(assets))

\* a slip: the two weights are exchanged
calculateConfidenceScore_weightsSwapped(assets) ==
    IF Len(assets) = 0 THEN 0
    ELSE (sumScores(assets) * 3) \div (Len(assets) * 10)
             + (Len(SelectSeq(assets, LAMBDA a : a.brand_compliance)) * ONE * 7)
                   \div (Len(assets) * 10)

\* calculateConfidenceScore
calculateConfidenceScore(assets) ==
    IF Len(assets) = 0 THEN 0
    ELSE LET n == Len(assets)
             compliant == Len(SelectSeq(assets, LAMBDA a : a.brand_compliance))
         IN  (sumScores(assets) * 7) \div (n * 10)
                 + (compliant * ONE * 3) \div (n * 10)

\* generateReasoning: the values the templated sentence interpolates
generateReasoning(assets, query) ==
    [count |-> Len(assets),
     assetTypes |-> uniqueInOrder([i \in 1..Len(assets) |-> assets[i].type]),
     sources |-> uniqueInOrder([i \in 1..Len(assets) |-> assets[i].source]),
     slide_type |-> query.slide_type,
     target_audience |-> query.target_audience]

\* a slip: the filter forgets cultural_appropriateness
compliantAssets_brandOnly(scoredAssets) ==
    SelectSeq(scoredAssets, LAMBDA asset : asset.brand_compliance)

\* the compliance filter of curateAssets
compliantAssets(scoredAssets) ==
    SelectSeq(scoredAssets,
              LAMBDA asset : asset.brand_compliance /\ asset.cultural_appropriateness)

\* a slip: the fallback candidates are the best scored candidates, the
\* selected ones not excluded
fallbackAssets_noExclude(scoredAssets, recommendedAssets) ==
    sliceTo(sortByScoreDescending(scoredAssets), 3)

\* the fallback selection of curateAssets
fallbackAssets(scoredAssets, recommendedAssets) ==
    sliceTo(SelectSeq(scoredAssets,
                      LAMBDA asset : ~includesObject(recommendedAssets, asset)), 3)

\* curateAssets from the combine step on, given what the three searches
\* returned
curateFrom(unsplashAssets, iconifyAssets, freepikAssets, query) ==
    LET allAssets == unsplashAssets \o iconifyAssets \o freepikAssets
        scoredAssets == scoreAssets(allAssets, query)
        recommendedAssets ==
            sliceTo(sortByScoreDescending(compliantAssets(scoredAssets)), 5)
    IN  [assets |-> recommendedAssets,
         reasoning |-> generateReasoning(recommendedAssets, query),
         confidence_score |-> calculateConfidenceScore(recommendedAssets),
         fallback_options |-> fallbackAssets(scoredAssets, recommendedAssets)]

\* checkCulturalAppropriateness: no sensitive term in the lower-cased alt
\* text and tags (the terms hold no space, so a match lies inside one piece)
sensitiveTerms == {S_religious, S_political, S_controversial}

checkCulturalAppropriateness(asset, context) ==
    LET assetContent == asset.alt_text \o joinPieces(asset.tags)
    IN  ~\E term \in sensitiveTerms :
            \E i \in 1..Len(assetContent) :
                includes(toLowerCase(assetContent[i]), term)

-----------------------------------------------------------------------------
(* Layer 4: StyleOrchestrationEngine.                                      *)

\* the brand token catalog StyleOrchestrationEngine.hatchBrandTokens
hatchBrandTokens ==
    << [name |-> "--hatch-primary-blue", value |-> "#095078",
        category |-> "color", scope |-> "global"],
       [name |-> "--hatch-secondary-blue", value |-> "#ACBCC8",
        category |-> "color", scope |-> "global"],
       [name |-> "--hatch-primary-orange", value |-> "#E84B37",
        category |-> "color", scope |-> "global"],
       [name |-> "--hatch-secondary-orange", value |-> "#E75300",
        category |-> "color", scope |-> "global"],
       [name |-> "--hatch-corporate-gray", value |-> "#425563",
        category |-> "color", scope |-> "global"],
       [name |-> "--hatch-medium-gray", value |-> "#595959",
        category |-> "color", scope |-> "global"],
       [name |-> "--hatch-light-gray", value |-> "#A0AEC0",
        category |-> "color", scope |-> "global"],
       [name |-> "--hatch-background", value |-> "#f4f4f4",
        category |-> "color", scope |-> "global"],
       [name |-> "--hatch-white", value |-> "#FFFFFF",
        category |-> "color", scope |-> "global"],
       [name |-> "--font-primary", value |-> "Inter, system-ui, sans-serif",
        category |-> "typography", scope |-> "global"],
       [name |-> "--font-weight-normal", value |-> "400",
        category |-> "typography", scope |-> "global"],
       [name |-> "--font-weight-medium", value |-> "500",
        category |-> "typography", scope |-> "global"],
       [name |-> "--font-weight-bold", value |-> "700",
        category |-> "typography", scope |-> "global"],
       [name |-> "--font-size-xs", value |-> "0.75rem",
        category |-> "typography", scope |-> "global"],
       [name |-> "--font-size-sm", value |-> "0.875rem",
        category |-> "typography", scope |-> "global"],
       [name |-> "--font-size-base", value |-> "1rem",
        category |-> "typography", scope |-> "global"],
       [name |-> "--font-size-lg", value |-> "1.125rem",
        category |-> "typography", scope |-> "global"],
       [name |-> "--font-size-xl", value |-> "1.25rem",
        category |-> "typography", scope |-> "global"],
       [name |-> "--font-size-2xl", value |-> "1.5rem",
        category |-> "typography", scope |-> "global"],
       [name |-> "--font-size-3xl", value |-> "1.875rem",
        category |-> "typography", scope |-> "global"],
       [name |-> "--font-size-4xl", value |-> "2.25rem",
        category |-> "typography", scope |-> "global"],
       [name |-> "--spacing-1", value |-> "0.25rem",
        category |-> "spacing", scope |-> "global"],
       [name |-> "--spacing-2", value |-> "0.5rem",
        category |-> "spacing", scope |-> "global"],
       [name |-> "--spacing-3", value |-> "0.75rem",
        category |-> "spacing", scope |-> "global"],
       [name |-> "--spacing-4", value |-> "1rem",
        category |-> "spacing", scope |-> "global"],
       [name |-> "--spacing-6", value |-> "1.5rem",
        category |-> "spacing", scope |-> "global"],
       [name |-> "--spacing-8", value |-> "2rem",
        category |-> "spacing", scope |-> "global"],
       [name |-> "--spacing-12", value |-> "3rem",
        category |-> "spacing", scope |-> "global"],
       [name |-> "--spacing-16", value |-> "4rem",
        category |-> "spacing", scope |-> "global"],
       [name |-> "--shadow-sm", value |-> "0 1px 2px 0 rgba(0, 0, 0, 0.05)",
        category |-> "shadow", scope |-> "global"],
       [name |-> "--shadow-md", value |-> "0 4px 6px -1px rgba(0, 0, 0, 0.1)",
        category |-> "shadow", scope |-> "global"],
       [name |-> "--shadow-lg", value |-> "0 10px 15px -3px rgba(0, 0, 0, 0.1)",
        category |-> "shadow", scope |-> "global"],
       [name |-> "--border-radius-sm", value |-> "0.125rem",
        category |-> "border", scope |-> "global"],
       [name |-> "--border-radius-md", value |-> "0.375rem",
        category |-> "border", scope |-> "global"],
       [name |-> "--border-radius-lg", value |-> "0.5rem",
        category |-> "border", scope |-> "global"],
       [name |-> "--border-radius-xl", value |-> "0.75rem",
        category |-> "border", scope |-> "global"] >>

\* A text is the list of its lines (what split('\n') returns), a line the
\* list of the parts it was put together from; the empty text is one empty
\* line.
emptyText == << <<>> >>

\* a + b on texts: the last line of a goes on in the first line of b
strcat(a, b) ==
    SubSeq(a, 1, Len(a) - 1) \o <<a[Len(a)] \o b[1]>> \o Tail(b)

\* texts.join(sep)
RECURSIVE joinTexts(_, _)
joinTexts(texts, sep) ==
    IF texts = <<>> THEN emptyText
    ELSE IF Len(texts) = 1 THEN texts[1]
    ELSE strcat(strcat(texts[1], sep), joinTexts(Tail(texts), sep))

\* the text of complete lines, each ended by a newline
linesText(lines) == lines \o emptyText

\* the template literal of generateCSSFramework, up to ${cssVariables}
cssTemplateHead ==
    << <<>>,
       <<"/* Hatch Corporate Design System */">>,
       <<":root {">>,
       <<>> >>

\* the template literal between ${cssVariables} and ${componentStyles}
cssTemplateBase ==
    << <<>>,
       <<"}">>,
       <<>>,
       <<"/* Base styles */">>,
       <<".slidev-container {">>,
       <<"  font-family: var(--font-primary);">>,
       <<"  color: var(--hatch-corporate-gray);">>,
       <<"  background: var(--hatch-background);">>,
       <<"  line-height: 1.6;">>,
       <<"}">>,
       <<>>,
       <<".slide {">>,
       <<"  padding: var(--spacing-8);">>,
       <<"  min-height: 100vh;">>,
       <<"  display: flex;">>,
       <<"  flex-direction: column;">>,
       <<"}">>,
       <<>>,
       <<"/* Component styles */">>,
       <<>> >>

\* the template literal after ${componentStyles}
cssTemplateUtilities ==
    << <<>>,
       <<>>,
       <<"/* Utility classes */">>,
       <<".text-center { text-align: center; }">>,
       <<".text-left { text-align: left; }">>,
       <<".text-right { text-align: right; }">>,
       <<>>,
       <<".font-bold { font-weight: var(--font-weight-bold); }">>,
       <<".font-medium { font-weight: var(--font-weight-medium); }">>,
       <<>>,
       <<".text-primary { color: var(--hatch-primary-blue); }">>,
       <<".text-accent { color: var(--hatch-primary-orange); }">>,
       <<".text-muted { color: var(--hatch-medium-gray); }">>,
       <<>>,
       <<".bg-primary { background: var(--hatch-primary-blue); }">>,
       <<".bg-accent { background: var(--hatch-primary-orange); }">>,
       <<".bg-light { background: var(--hatch-light-gray); }">>,
       <<>>,
       <<".shadow-sm { box-shadow: var(--shadow-sm); }">>,
       <<".shadow-md { box-shadow: var(--shadow-md); }">>,
       <<".shadow-lg { box-shadow: var(--shadow-lg); }">>,
       <<>>,
       <<".rounded-sm { border-radius: var(--border-radius-sm); }">>,
       <<".rounded-md { border-radius: var(--border-radius-md); }">>,
       <<".rounded-lg { border-radius: var(--border-radius-lg); }">>,
       <<>>,
       <<"/* Responsive utilities */">>,
       <<"@media (max-width: 768px) {">>,
       <<"  .slide {">>,
       <<"    padding: var(--spacing-4);">>,
       <<"  }">>,
       <<"  ">>,
       <<"  .desktop-only {">>,
       <<"    display: none;">>,
       <<"  }">>,
       <<"}">>,
       <<>>,
       <<"@media (min-width: 769px) {">>,
       <<"  .mobile-only {">>,
       <<"    display: none;">>,
       <<"  }">>,
       <<"}">>,
       <<>> >>

\* the components of createHatchCorporateTheme: styles, variants and
\* responsive are lists of pairs in the key order of the object literals
themeComponents ==
    << [component |-> "slide-header",
        styles |-> << <<"background", "linear-gradient(135deg, var(--hatch-primary-blue) 0%, var(--hatch-secondary-blue) 100%)">>,
                      <<"color", "var(--hatch-white)">>,
                      <<"padding", "var(--spacing-8) var(--spacing-12)">>,
                      <<"border-radius", "var(--border-radius-lg)">>,
                      <<"margin-bottom", "var(--spacing-6)">> >>,
        variants |-> << <<"hero", << <<"font-size", "var(--font-size-4xl)">>,
                                     <<"text-align", "center">>,
                                     <<"padding", "var(--spacing-12) var(--spacing-16)">> >> >>,
                        <<"content", << <<"font-size", "var(--font-size-2xl)">>,
                                        <<"text-align", "left">> >> >> >>,
        responsive |-> << >>],
       [component |-> "slide-content",
        styles |-> << <<"color", "var(--hatch-corporate-gray)">>,
                      <<"font-family", "var(--font-primary)">>,
                      <<"line-height", "1.6">>,
                      <<"padding", "var(--spacing-6)">> >>,
        variants |-> << <<"high-density", << <<"font-size", "var(--font-size-sm)">>,
                                             <<"line-height", "1.4">> >> >>,
                        <<"low-density", << <<"font-size", "var(--font-size-lg)">>,
                                            <<"line-height", "1.8">> >> >> >>,
        responsive |-> << >>],
       [component |-> "call-to-action",
        styles |-> << <<"background", "linear-gradient(135deg, var(--hatch-primary-orange) 0%, var(--hatch-secondary-orange) 100%)">>,
                      <<"color", "var(--hatch-white)">>,
                      <<"padding", "var(--spacing-4) var(--spacing-8)">>,
                      <<"border-radius", "var(--border-radius-md)">>,
                      <<"font-weight", "var(--font-weight-bold)">>,
                      <<"text-align", "center">>,
                      <<"box-shadow", "var(--shadow-md)">> >>,
        variants |-> << >>,
        responsive |-> << >>],
       [component |-> "data-table",
        styles |-> << <<"border", "2px solid var(--hatch-primary-orange)">>,
                      <<"border-radius", "var(--border-radius-lg)">>,
                      <<"overflow", "hidden">> >>,
        variants |-> << <<"header", << <<"background", "var(--hatch-primary-orange)">>,
                                       <<"color", "var(--hatch-white)">>,
                                       <<"font-weight", "var(--font-weight-bold)">> >> >>,
                        <<"cell", << <<"padding", "var(--spacing-3)">>,
                                     <<"border-bottom", "1px solid var(--hatch-light-gray)">> >> >> >>,
        responsive |-> << >>] >>

\* createHatchCorporateTheme
createHatchCorporateTheme ==
    [name |-> "hatch-corporate",
     tokens |-> hatchBrandTokens,
     components |-> themeComponents,
     brand_alignment |-> ONE,
     accessibility_score |-> Pct(95)]

DesignToken(name, value, category) ==
    [name |-> name, value |-> value, category |-> category, scope |-> "component"]

\* generateCustomTokens
generateCustomTokens(slideType, audience, contentDensity) ==
    (IF audience = "executive"
     THEN << DesignToken("--executive-emphasis", "var(--hatch-primary-blue)", "color"),
             DesignToken("--executive-font-size", "var(--font-size-xl)", "typography") >>
     ELSE IF audience = "technical"
     THEN << DesignToken("--technical-accent", "var(--hatch-medium-gray)", "color"),
             DesignToken("--code-font", "Monaco, Consolas, monospace", "typography") >>
     ELSE << >>)
    \o
    (IF contentDensity = "high"
     THEN << DesignToken("--dense-spacing", "var(--spacing-2)", "spacing"),
             DesignToken("--dense-font-size", "var(--font-size-sm)", "typography") >>
     ELSE IF contentDensity = "low"
     THEN << DesignToken("--spacious-spacing", "var(--spacing-8)", "spacing"),
             DesignToken("--spacious-font-size", "var(--font-size-lg)", "typography") >>
     ELSE << >>)
    \o
    (IF slideType = "hero"
     THEN << DesignToken("--hero-gradient", "linear-gradient(135deg, var(--hatch-primary-blue) 0%, var(--hatch-secondary-blue) 100%)", "color") >>
     ELSE IF slideType = "evidence"
     THEN << DesignToken("--evidence-highlight", "var(--hatch-primary-orange)", "color") >>
     ELSE << >>)

\* generateComponentOverrides
generateComponentOverrides(slideType, contentDensity) ==
    (IF slideType = "comparison"
     THEN << [component |-> "comparison-grid",
              styles |-> << <<"display", "grid">>,
                            <<"grid-template-columns", "1fr 1fr">>,
                            <<"gap", "var(--spacing-6)">>,
                            <<"padding", "var(--spacing-4)">> >>,
              variants |-> << >>, responsive |-> << >>] >>
     ELSE << >>)
    \o
    (IF slideType = "timeline"
     THEN << [component |-> "timeline-container",
              styles |-> << <<"display", "flex">>,
                            <<"flex-direction", "row">>,
                            <<"align-items", "center">>,
                            <<"gap", "var(--spacing-4)">> >>,
              variants |-> << >>,
              responsive |-> << <<"mobile", << <<"flex-direction", "column">> >> >> >>] >>
     ELSE << >>)
    \o
    (IF contentDensity = "high"
     THEN << [component |-> "content-container",
              styles |-> << <<"font-size", "var(--dense-font-size)">>,
                            <<"line-height", "1.4">>,
                            <<"padding", "var(--dense-spacing)">> >>,
              variants |-> << >>, responsive |-> << >>] >>
     ELSE << >>)

\* the lines `${indent}${property}: ${value};` of a list of pairs
propertyLines(indent, pairs) ==
    [i \in 1..Len(pairs) |-> <<indent, pairs[i][1], ": ", pairs[i][2], ";">>]

RECURSIVE flatten(_)
flatten(seqs) == IF seqs = <<>> THEN <<>> ELSE seqs[1] \o flatten(Tail(seqs))

\* generateComponentCSS: the base rule, one rule for each variant, one media
\* block for each responsive key; every line ends with a newline
generateComponentCSS(component) ==
    linesText(
        << <<".", component.component, " {">> >>
        \o propertyLines("  ", component.styles)
        \o << <<"}">> >>
        \o flatten([v \in 1..Len(component.variants) |->
               << <<".", component.component, "--", component.variants[v][1], " {">> >>
               \o propertyLines("  ", component.variants[v][2])
               \o << <<"}">> >>])
        \o flatten([r \in 1..Len(component.responsive) |->
               << <<"@media (",
                    IF component.responsive[r][1] = "mobile"
                    THEN "max-width: 768px" ELSE "min-width: 769px",
                    ") {">>,
                  <<"  .", component.component, " {">> >>
               \o propertyLines("    ", component.responsive[r][2])
               \o << <<"  }">>, <<"}">> >>]))

\* the custom property declarations of a token list, joined by newlines
cssVariablesOf(tokens) ==
    IF tokens = <<>> THEN emptyText
    ELSE [i \in 1..Len(tokens) |-> <<"  ", tokens[i].name, ": ", tokens[i].value, ";">>]

\* a slip: only the tokens of the theme are written out
generateCSSFramework_themeOnly(theme, customTokens) ==
    strcat(cssTemplateHead,
    strcat(cssVariablesOf(theme.tokens),
    strcat(cssTemplateBase,
    strcat(joinTexts([i \in 1..Len(theme.components) |->
                         generateComponentCSS(theme.components[i])],
                     << <<>>, <<>>, <<>> >>),
           cssTemplateUtilities))))

\* StyleOrchestrationEngine.generateCSSFramework
generateCSSFramework(theme, customTokens) ==
    LET allTokens == theme.tokens \o customTokens
        cssVariables == cssVariablesOf(allTokens)
        componentStyles ==
            joinTexts([i \in 1..Len(theme.components) |->
                          generateComponentCSS(theme.components[i])],
                      << <<>>, <<>>, <<>> >>)
    IN  strcat(cssTemplateHead,
        strcat(cssVariables,
        strcat(cssTemplateBase,
        strcat(componentStyles, cssTemplateUtilities))))

\* generateStyleReasoning: the parts of the sentence
generateStyleReasoning(slideType, audience, contentDensity) ==
    <<"Style optimized for ", slideType, " slide targeting ", audience,
      " audience with ", contentDensity, " content density. ",
      "Applied Hatch corporate branding with accessibility-compliant color contrasts and responsive design patterns. ",
      "Used atomic design principles with modular component system for consistency and maintainability.">>

\* generateStyleRecommendation (brandGuidelines is not read)
generateStyleRecommendation(slideType, audience, contentDensity, brandGuidelines) ==
    LET baseTheme == createHatchCorporateTheme
        customTokens == generateCustomTokens(slideType, audience, contentDensity)
        componentOverrides == generateComponentOverrides(slideType, contentDensity)
        cssFramework == generateCSSFramework(baseTheme, customTokens)
    IN  [theme |-> baseTheme,
         custom_tokens |-> customTokens,
         component_overrides |-> componentOverrides,
         css_framework |-> cssFramework,
         reasoning |-> generateStyleReasoning(slideType, audience, contentDensity)]

-----------------------------------------------------------------------------
(* SlidevBuilderOrchestrator.                                              *)

\* curateAssets as the repository runs it: each search gives its mock answer
curateAssets(query) ==
    LET searchTerms == extractSearchTerms(query.content_context)
        styleFilter == getStyleFilter(query.preferred_style)
    IN  curateFrom(searchUnsplash(searchTerms, styleFilter),
                   searchIconify(searchTerms),
                   searchFreepik(searchTerms, styleFilter),
                   query)

\* content_points.join(', ')
RECURSIVE joinPoints(_)
joinPoints(points) ==
    IF points = <<>> THEN <<>>
    ELSE IF Len(points) = 1 THEN points[1]
    ELSE points[1] \o <<",", " ">> \o joinPoints(Tail(points))

\* generateSlideTitle (the second argument is not read)
generateSlideTitle(slideType, contentPoints) ==
    CASE slideType = "hero" -> "Market Leadership Response"
      [] slideType = "problem" -> "Current Market Challenges"
      [] slideType = "solution" -> "Our Strategic Solution"
      [] slideType = "evidence" -> "Proven Results & Impact"
      [] slideType = "action" -> "Next Steps Forward"
      [] OTHER -> "Key Information"

\* the <img> element a template embeds when it is given an asset
imgOf(asset) ==
    IF asset = undefined THEN undefined
    ELSE [src |-> asset.url, alt |-> asset.alt_text]

\* generateSlideMarkdown with the six templates it switches over: the
\* markdown is held as the template chosen and the values interpolated into
\* it (the fixed text of a template is a function of its name).  The action
\* template interpolates no asset.
generateSlideMarkdown(recommendation, layout, assets, style) ==
    LET layoutClass == layout.pattern.name
        primaryAsset == IF assets.assets = <<>> THEN undefined ELSE assets.assets[1]
        listed == {"hero", "problem", "solution", "evidence", "action"}
        template == IF recommendation.slide_type \in listed
                    THEN recommendation.slide_type ELSE "default"
    IN  [class |-> layoutClass,
         style |-> style.css_framework,
         template |-> template,
         title |-> generateSlideTitle(template, recommendation.content_points),
         points |-> recommendation.content_points,
         img |-> IF template = "action" THEN undefined ELSE imgOf(primaryAsset)]

\* values.reduce((sum, value) => sum + value, 0)
RECURSIVE reduceSum(_)
reduceSum(values) ==
    IF values = <<>> THEN 0 ELSE values[1] + reduceSum(Tail(values))

\* a slip: the time of the first slide is not counted
estimatedTimes_skipFirst(slides) ==
    [i \in 1..(Len(slides) - 1) |-> slides[i + 1].estimated_time]

\* what the reducers of the orchestrator add up, slide by slide
estimatedTimes(slides) == [i \in 1..Len(slides) |-> slides[i].estimated_time]
layoutAccessibilities(slides) ==
    [i \in 1..Len(slides) |-> slides[i].layout.accessibility_score]
brandAlignments(slides) ==
    [i \in 1..Len(slides) |-> slides[i].style.theme.brand_alignment]
contentQualities(slides) ==
    [i \in 1..Len(slides) |->
        IF Len(slides[i].content) > 50 THEN Pct(90) ELSE Pct(70)]
\* a slip: a slide without assets is rated like one with assets
visualAppeals_noEmptyCase(slides) == [i \in 1..Len(slides) |-> Pct(90)]

visualAppeals(slides) ==
    [i \in 1..Len(slides) |->
        IF Len(slides[i].assets.assets) > 0 THEN Pct(90) ELSE Pct(60)]

\* calculatePresentationMetadata (the deck holds at least one slide)
calculatePresentationMetadata(slides, contentAnalysis) ==
    [total_slides |-> Len(slides),
     estimated_duration |-> reduceSum(estimatedTimes(slides)),
     complexity_score |-> contentAnalysis.content_structure.cognitive_load_score,
     accessibility_score |-> reduceSum(layoutAccessibilities(slides)) \div Len(slides),
     brand_compliance |-> reduceSum(brandAlignments(slides)) \div Len(slides)]

\* a slip: the overall score is the sum of the four metrics over three
calculateQualityMetrics_overThree(slides) ==
    LET contentQuality == reduceSum(contentQualities(slides)) \div Len(slides)
        visualAppeal == reduceSum(visualAppeals(slides)) \div Len(slides)
        accessibility == reduceSum(layoutAccessibilities(slides)) \div Len(slides)
        brandAlignment == reduceSum(brandAlignments(slides)) \div Len(slides)
    IN  [content_quality |-> contentQuality,
         visual_appeal |-> visualAppeal,
         accessibility |-> accessibility,
         brand_alignment |-> brandAlignment,
         overall_score |->
             (contentQuality + visualAppeal + accessibility + brandAlignment) \div 3]

\* calculateQualityMetrics (the deck holds at least one slide; the scores are
\* multiples of ONE / 100, so that every quotient here is exact)
calculateQualityMetrics(slides) ==
    LET contentQuality == reduceSum(contentQualities(slides)) \div Len(slides)
        visualAppeal == reduceSum(visualAppeals(slides)) \div Len(slides)
        accessibility == reduceSum(layoutAccessibilities(slides)) \div Len(slides)
        brandAlignment == reduceSum(brandAlignments(slides)) \div Len(slides)
        overallScore ==
            (contentQuality + visualAppeal + accessibility + brandAlignment) \div 4
    IN  [content_quality |-> contentQuality,
         visual_appeal |-> visualAppeal,
         accessibility |-> accessibility,
         brand_alignment |-> brandAlignment,
         overall_score |-> overallScore]

\* a slip: the rules are chained with else, so that the first rule that
\* fires keeps the later ones from firing
generateOptimizationSuggestions_elseIf(slides, metrics, request) ==
    IF metrics.content_quality < Pct(80)
    THEN << <<"Consider expanding content depth or adding more supporting details">> >>
    ELSE IF metrics.visual_appeal < Pct(80)
    THEN << <<"Add more visual elements like charts, diagrams, or high-quality images">> >>
    ELSE IF metrics.accessibility < Pct(90)
    THEN << <<"Improve accessibility with better color contrast and alt text">> >>
    ELSE IF Len(slides) > 10
    THEN << <<"Consider condensing content - presentations over 10 slides may lose audience attention">> >>
    ELSE << >>

\* generateOptimizationSuggestions.  time_constraint is <<>> when the request
\* leaves it out and <<minutes>> otherwise; Math.round(totalTime/60) of a
\* total that is not negative is (totalTime + 30) \div 60.
generateOptimizationSuggestions(slides, metrics, request) ==
    LET totalTime == reduceSum(estimatedTimes(slides))
    IN  (IF metrics.content_quality < Pct(80)
         THEN << <<"Consider expanding content depth or adding more supporting details">> >>
         ELSE << >>)
        \o
        (IF metrics.visual_appeal < Pct(80)
         THEN << <<"Add more visual elements like charts, diagrams, or high-quality images">> >>
         ELSE << >>)
        \o
        (IF metrics.accessibility < Pct(90)
         THEN << <<"Improve accessibility with better color contrast and alt text">> >>
         ELSE << >>)
        \o
        (IF Len(slides) > 10
         THEN << <<"Consider condensing content - presentations over 10 slides may lose audience attention">> >>
         ELSE << >>)
        \o
        (IF /\ request.time_constraint # << >>
            /\ request.time_constraint[1] # 0
            /\ totalTime > request.time_constraint[1] * 60
         THEN << <<"Presentation duration (", (totalTime + 30) \div 60,
                   "min) exceeds time constraint">> >>
         ELSE << >>)

\* the AssetQuery generateSlideDeck builds for a recommendation
assetQuery(recommendation, request) ==
    [content_context |-> request.content,
     slide_type |-> recommendation.slide_type,
     target_audience |-> request.audience,
     brand_guidelines |-> request.brand_guidelines,
     preferred_style |-> "professional"]

\* a slip: the id counts from zero
slideId_fromZero(slides) == <<"slide_", Len(slides)>>

\* `slide_${slides.length + 1}`: the id of the slide pushed next
slideId(slides) == <<"slide_", Len(slides) + 1>>

\* the body of the loop of generateSlideDeck after the assets are curated:
\* the style, the markdown and the slide pushed, slides being those
\* generated so far
buildSlide(recommendation, contentAnalysis, request, slides, layoutRecommendation_, assetRecommendation) ==
    LET styleRecommendation ==
            generateStyleRecommendation(recommendation.slide_type,
                                        request.audience,
                                        contentAnalysis.content_density,
                                        request.brand_guidelines)
        slideMarkdown ==
            generateSlideMarkdown(recommendation, layoutRecommendation_,
                                  assetRecommendation, styleRecommendation)
    IN  [id |-> slideId(slides),
         type |-> recommendation.slide_type,
         title |-> generateSlideTitle(recommendation.slide_type, << >>),
         content |-> joinPoints(recommendation.content_points),
         layout |-> layoutRecommendation_,
         assets |-> assetRecommendation,
         style |-> styleRecommendation,
         markdown |-> slideMarkdown,
         estimated_time |-> recommendation.estimated_time]

\* the body of the loop of generateSlideDeck: the slide generated for a
\* recommendation, slides being those generated so far
generateSlide(recommendation, contentAnalysis, request, slides) ==
    buildSlide(recommendation, contentAnalysis, request, slides,
               recommendLayout(recommendation.slide_type,
                               contentAnalysis.content_density,
                               request.audience, TRUE),
               curateAssets(assetQuery(recommendation, request)))

\* what generateSlideDeck returns once its loop is over
deckResult(slides, contentAnalysis, request) ==
    LET metadata == calculatePresentationMetadata(slides, contentAnalysis)
        qualityMetrics == calculateQualityMetrics(slides)
        optimizationSuggestions ==
            generateOptimizationSuggestions(slides, qualityMetrics, request)
    IN  [slides |-> slides,
         presentation_metadata |-> metadata,
         quality_metrics |-> qualityMetrics,
         optimization_suggestions |-> optimizationSuggestions]

\* the loop of generateSlideDeck from the recommendation of index i on
RECURSIVE slidesFrom(_, _, _, _)
slidesFrom(i, contentAnalysis, request, slides) ==
    IF i > Len(contentAnalysis.slide_recommendations) THEN slides
    ELSE slidesFrom(i + 1, contentAnalysis, request,
                    Append(slides,
                           generateSlide(contentAnalysis.slide_recommendations[i],
                                         contentAnalysis, request, slides)))

\* generateSlideDeck, run from its call to its return with nothing in between
generateSlideDeck(request) ==
    LET contentAnalysis == analyzeContent(request.content, request.audience)
    IN  deckResult(slidesFrom(1, contentAnalysis, request, << >>),
                   contentAnalysis, request)

-----------------------------------------------------------------------------
(* The inputs of the model.                                                *)

Audiences == {"executive", "technical", "general"}

\* the pieces generated contents are made of
ContentVocab ==
    {S_empty, S_Problem, S_challenge, S_solution, S_approach, S_RESULTS,
     S_benefit}

\* how many "data" pieces precede the tail: around the word counts 250, 400
\* and 550, where the density and the cap of the score change
FillChoices == {0, 248, 398, 548}

RECURSIVE SeqsUpTo(_, _)
SeqsUpTo(S, n) ==
    IF n = 0 THEN {<<>>}
    ELSE LET shorter == SeqsUpTo(S, n - 1)
         IN  shorter \cup {Append(s, x) : s \in shorter, x \in S}

Contents ==
    {[fill |-> f, tail |-> t] :
        f \in FillChoices, t \in SeqsUpTo(ContentVocab, MaxTail) \ {<<>>}}

NoResult == [none |-> TRUE]

\* slide types: the six of SlideRecommendation, the further ones the layout
\* and style rules name, and one that no rule names
SlideTypes ==
    {"hero", "problem", "solution", "evidence", "action", "summary",
     "comparison", "process", "workflow", "timeline", "unlisted"}

Densities == {"low", "medium", "high"}

\* the audiences of the request, and one that no rule names
AnyAudience == Audiences \cup {"investor"}

-----------------------------------------------------------------------------
(* The calls that a specification does not make.                           *)

ContentOff ==
    /\ c_pc = "off"
    /\ c_content = NoResult
    /\ c_audience = "general"
    /\ c_ret = NoResult

LayoutOff ==
    /\ l_pc = "off"
    /\ l_args = NoResult
    /\ l_ret = NoResult

AssetsOff ==
    /\ a_pc = "off"
    /\ a_query = NoResult
    /\ a_locals = NoResult
    /\ a_ret = NoResult

StyleOff ==
    /\ s_pc = "off"
    /\ s_args = NoResult
    /\ s_ret = NoResult

DeckOff ==
    /\ d_pc = "off"
    /\ d_request = NoResult
    /\ d_analysis = NoResult
    /\ d_slides = << >>
    /\ d_ret = NoResult

ConcOff ==
    /\ k_calls = << >>
    /\ k_static = NoResult

ProjOff ==
    /\ p_pc = "off"
    /\ p_args = NoResult
    /\ p_request = NoResult
    /\ p_steps = << >>
    /\ p_result = NoResult
    /\ p_ret = NoResult

ValidOff ==
    /\ v_pc = "off"
    /\ v_theme = NoResult
    /\ v_ret = NoResult

SuggestOff ==
    /\ o_pc = "off"
    /\ o_args = NoResult
    /\ o_ret = NoResult

-----------------------------------------------------------------------------
(* A call of ContentIntelligenceEngine.analyzeContent.                     *)

InitContent ==
    /\ c_pc = "call"
    /\ c_content \in Contents
    /\ c_audience \in Audiences
    /\ c_ret = NoResult
    /\ LayoutOff
    /\ AssetsOff
    /\ StyleOff
    /\ DeckOff
    /\ ConcOff
    /\ ProjOff
    /\ ValidOff
    /\ SuggestOff

AnalyzeContent ==
    /\ c_pc = "call"
    /\ c_ret' = analyzeContent(c_content, c_audience)
    /\ c_pc' = "done"
    /\ UNCHANGED <<c_content, c_audience, layoutVars, assetVars, styleVars, deckVars, concVars, projVars, validVars, suggestVars>>

NextContent == AnalyzeContent

SpecContent == InitContent /\ [][NextContent]_vars

-----------------------------------------------------------------------------
(* A call of LayoutOptimizationEngine.recommendLayout.                     *)

InitLayout ==
    /\ l_pc = "call"
    /\ l_args \in [slideType : SlideTypes, contentDensity : Densities,
                   audience : AnyAudience, hasVisuals : BOOLEAN]
    /\ l_ret = NoResult
    /\ ContentOff
    /\ AssetsOff
    /\ StyleOff
    /\ DeckOff
    /\ ConcOff
    /\ ProjOff
    /\ ValidOff
    /\ SuggestOff

RecommendLayout ==
    /\ l_pc = "call"
    /\ l_ret' = recommendLayout(l_args.slideType, l_args.contentDensity,
                                l_args.audience, l_args.hasVisuals)
    /\ l_pc' = "done"
    /\ UNCHANGED <<l_args, contentVars, assetVars, styleVars, deckVars, concVars, projVars, validVars, suggestVars>>

NextLayout == RecommendLayout

SpecLayout == InitLayout /\ [][NextLayout]_vars

-----------------------------------------------------------------------------
(* A call of AssetIntelligenceEngine.curateAssets.  The three searches are *)
(* awaited one after the other.  In the repository each search returns its  *)
(* mock answer; they are the places where the asset providers are to be     *)
(* called, and with providers a search returns whatever candidates the      *)
(* provider reports.                                                        *)

UnsplashPool ==
    { [id |-> <<"unsplash_", 2>>, type |-> "image", source |-> "unsplash",
       url |-> <<"https://images.unsplash.com/p2">>,
       alt_text |-> <<S_Professional, S_image>>, tags |-> <<S_professional>>,
       semantic_score |-> Pct(95), brand_compliance |-> TRUE,
       cultural_appropriateness |-> TRUE, license |-> "free"],
      [id |-> <<"unsplash_", 3>>, type |-> "image", source |-> "unsplash",
       url |-> <<"https://images.unsplash.com/p3">>,
       alt_text |-> <<S_political, S_image>>, tags |-> <<S_political>>,
       semantic_score |-> Pct(40), brand_compliance |-> TRUE,
       cultural_appropriateness |-> FALSE, license |-> "free"] }

IconifyPool ==
    { [id |-> <<"iconify_", 7>>, type |-> "icon", source |-> "iconify",
       url |-> <<"https://api.iconify.design/mdi/", S_growth, ".svg">>,
       alt_text |-> <<S_growth, S_icon>>, tags |-> <<S_growth>>,
       semantic_score |-> Pct(90), brand_compliance |-> TRUE,
       cultural_appropriateness |-> TRUE, license |-> "free"],
      [id |-> <<"iconify_", 8>>, type |-> "icon", source |-> "iconify",
       url |-> <<"https://api.iconify.design/mdi/", S_data, ".svg">>,
       alt_text |-> <<S_data, S_icon>>, tags |-> <<S_data>>,
       semantic_score |-> Pct(50), brand_compliance |-> FALSE,
       cultural_appropriateness |-> TRUE, license |-> "attribution"] }

FreepikPool ==
    { [id |-> <<"freepik_", 2>>, type |-> "image", source |-> "freepik",
       url |-> <<"https://freepik.com/p2">>,
       alt_text |-> <<S_Premium, S_business, S_illustration>>,
       tags |-> <<S_business, S_professional>>,
       semantic_score |-> Pct(85), brand_compliance |-> TRUE,
       cultural_appropriateness |-> TRUE, license |-> "premium"],
      [id |-> <<"freepik_", 3>>, type |-> "image", source |-> "freepik",
       url |-> <<"https://freepik.com/p3">>,
       alt_text |-> <<S_Premium, S_plan, S_illustration>>, tags |-> <<S_plan>>,
       semantic_score |-> Pct(2), brand_compliance |-> TRUE,
       cultural_appropriateness |-> TRUE, license |-> "premium"] }

\* what a search may return: its mock answer, and with providers any list of
\* at most MaxPerSource candidates
Answers(mock, pool, providers) ==
    {mock} \cup (IF providers THEN SeqsUpTo(pool, MaxPerSource) ELSE {})

\* the content contexts of the generated queries
ProviderContexts ==
    { [fill |-> 0, tail |-> <<S_empty>>],
      [fill |-> 0, tail |-> <<S_premium, S_plan, S_growth>>] }

MockContexts ==
    ProviderContexts \cup
    { [fill |-> 0, tail |-> <<S_Strategy_, S_growth>>],
      [fill |-> 0, tail |-> <<S_the, S_political, S_strategy>>],
      [fill |-> 0, tail |-> <<S_their, S_plan, S_with, S_their, S_plan>>],
      [fill |-> 8, tail |-> <<S_solution, S_service>>],
      [fill |-> 0, tail |-> <<S_business, S_strategy, S_growth, S_innovation,
                              S_technology, S_solution, S_service, S_plan,
                              S_their, S_problem, S_challenge, S_benefit>>] }

Query(contexts, types, audiences) ==
    [content_context : contexts, slide_type : types, target_audience : audiences,
     brand_guidelines : {"hatch-corporate"}, preferred_style : {"professional"}]

InitAssetsWith(queries) ==
    /\ a_pc = "unsplash"
    /\ a_query \in queries
    /\ a_locals = NoResult
    /\ a_ret = NoResult
    /\ ContentOff
    /\ LayoutOff
    /\ StyleOff
    /\ DeckOff
    /\ ConcOff
    /\ ProjOff
    /\ ValidOff
    /\ SuggestOff

\* with providers
InitAssets ==
    InitAssetsWith(Query(ProviderContexts, {"hero", "process", "evidence"},
                         {"executive", "general"}))

\* the repository as it is: mock answers only
InitAssetsMock ==
    InitAssetsWith(Query(MockContexts, {"hero", "process", "evidence", "unlisted"},
                         AnyAudience))

\* what the try block of a search may come to: an answer, and with providers
\* an exception of the provider call
Outcomes(mock, pool, providers) ==
    {[threw |-> FALSE, value |-> answer] : answer \in Answers(mock, pool, providers)}
    \cup (IF providers THEN {[threw |-> TRUE, value |-> << >>]} ELSE {})

\* a slip: the catch block logs the error and throws it again
searchCaught_rethrow(outcome) == outcome

\* try { return ... } catch (error) { console.error(...); return []; } of
\* the three searches
searchCaught(outcome) ==
    IF outcome.threw THEN [threw |-> FALSE, value |-> << >>] ELSE outcome

\* curateAssets up to its first await: the search terms, the style filter
\* and the Unsplash search.  failed is a history field: the sources whose
\* catch block ran.
SearchUnsplash(providers) ==
    /\ a_pc = "unsplash"
    /\ LET searchTerms == extractSearchTerms(a_query.content_context)
           styleFilter == getStyleFilter(a_query.preferred_style)
       IN  \E outcome \in Outcomes(searchUnsplash(searchTerms, styleFilter),
                                   UnsplashPool, providers) :
               /\ a_locals' = [searchTerms |-> searchTerms, styleFilter |-> styleFilter,
                               unsplashAssets |-> searchCaught(outcome).value,
                               iconifyAssets |-> <<>>,
                               freepikAssets |-> <<>>,
                               failed |-> IF outcome.threw THEN {"unsplash"} ELSE {}]
               /\ a_pc' = IF searchCaught(outcome).threw THEN "threw" ELSE "iconify"
    /\ UNCHANGED <<a_query, a_ret, contentVars, layoutVars, styleVars, deckVars, concVars, projVars, validVars, suggestVars>>

SearchIconify(providers) ==
    /\ a_pc = "iconify"
    /\ \E outcome \in Outcomes(searchIconify(a_locals.searchTerms),
                               IconifyPool, providers) :
           /\ a_locals' = [a_locals EXCEPT
                              !.iconifyAssets = searchCaught(outcome).value,
                              !.failed = IF outcome.threw THEN @ \cup {"iconify"} ELSE @]
           /\ a_pc' = IF searchCaught(outcome).threw THEN "threw" ELSE "freepik"
    /\ UNCHANGED <<a_query, a_ret, contentVars, layoutVars, styleVars, deckVars, concVars, projVars, validVars, suggestVars>>

SearchFreepik(providers) ==
    /\ a_pc = "freepik"
    /\ \E outcome \in Outcomes(searchFreepik(a_locals.searchTerms, a_locals.styleFilter),
                               FreepikPool, providers) :
           /\ a_locals' = [a_locals EXCEPT
                              !.freepikAssets = searchCaught(outcome).value,
                              !.failed = IF outcome.threw THEN @ \cup {"freepik"} ELSE @]
           /\ a_pc' = IF searchCaught(outcome).threw THEN "threw" ELSE "combine"
    /\ UNCHANGED <<a_query, a_ret, contentVars, layoutVars, styleVars, deckVars, concVars, projVars, validVars, suggestVars>>

\* curateAssets after its last await: combine, score, filter, sort, return
CurateReturn ==
    /\ a_pc = "combine"
    /\ a_ret' = curateFrom(a_locals.unsplashAssets, a_locals.iconifyAssets,
                           a_locals.freepikAssets, a_query)
    /\ a_pc' = "done"
    /\ UNCHANGED <<a_query, a_locals, contentVars, layoutVars, styleVars, deckVars, concVars, projVars, validVars, suggestVars>>

NextAssets ==
    \/ SearchUnsplash(TRUE)
    \/ SearchIconify(TRUE)
    \/ SearchFreepik(TRUE)
    \/ CurateReturn

SpecAssets == InitAssets /\ [][NextAssets]_vars

NextAssetsMock ==
    \/ SearchUnsplash(FALSE)
    \/ SearchIconify(FALSE)
    \/ SearchFreepik(FALSE)
    \/ CurateReturn

SpecAssetsMock == InitAssetsMock /\ [][NextAssetsMock]_vars

\* A source that never answers: the promise the call awaits is never
\* settled.  curateAssets sets no deadline on its awaits, so the call stays
\* suspended there.
SourceNeverAnswers ==
    /\ a_pc \in {"unsplash", "iconify", "freepik"}
    /\ a_pc' = CASE a_pc = "unsplash" -> "pending_unsplash"
                 [] a_pc = "iconify" -> "pending_iconify"
                 [] a_pc = "freepik" -> "pending_freepik"
    /\ UNCHANGED <<a_query, a_locals, a_ret, contentVars, layoutVars, styleVars,
                   deckVars, concVars, projVars, validVars, suggestVars>>

\* the searches of the repository, each of which may also never answer
NextAssetsSlow ==
    \/ SearchUnsplash(FALSE)
    \/ SearchIconify(FALSE)
    \/ SearchFreepik(FALSE)
    \/ CurateReturn
    \/ SourceNeverAnswers

\* the engine resumes a call whose awaited promise is settled; nothing makes
\* a source answer
SpecAssetsSlow ==
    /\ InitAssetsMock
    /\ [][NextAssetsSlow]_vars
    /\ WF_vars(SearchUnsplash(FALSE) \/ SearchIconify(FALSE)
               \/ SearchFreepik(FALSE) \/ CurateReturn)

-----------------------------------------------------------------------------
(* A call of StyleOrchestrationEngine.generateStyleRecommendation.         *)

InitStyle ==
    /\ s_pc = "call"
    /\ s_args \in [slideType : SlideTypes, audience : AnyAudience,
                   contentDensity : Densities,
                   brandGuidelines : {"undefined", "hatch-corporate", "acme"}]
    /\ s_ret = NoResult
    /\ ContentOff
    /\ LayoutOff
    /\ AssetsOff
    /\ DeckOff
    /\ ConcOff
    /\ ProjOff
    /\ ValidOff
    /\ SuggestOff

GenerateStyleRecommendation ==
    /\ s_pc = "call"
    /\ s_ret' = generateStyleRecommendation(s_args.slideType, s_args.audience,
                                            s_args.contentDensity,
                                            s_args.brandGuidelines)
    /\ s_pc' = "done"
    /\ UNCHANGED <<s_args, contentVars, layoutVars, assetVars, deckVars, concVars, projVars, validVars, suggestVars>>

NextStyle == GenerateStyleRecommendation

SpecStyle == InitStyle /\ [][NextStyle]_vars

-----------------------------------------------------------------------------
(* A call of SlidevBuilderOrchestrator.generateSlideDeck.                  *)

\* the pieces the content of a request is made of
DeckVocab == {S_Problem, S_approach, S_RESULTS}

DeckContents ==
    {[fill |-> f, tail |-> t] :
        f \in {0, 248, 398}, t \in SeqsUpTo(DeckVocab, MaxDeckTail) \ {<<>>}}
    \cup {[fill |-> 248, tail |-> << >>]}

Requests ==
    [content : DeckContents, audience : Audiences,
     presentation_type : {"business"}, brand_guidelines : {"hatch-corporate"},
     time_constraint : {<< >>, <<0>>, <<2>>, <<4>>, <<5>>}]

InitDeck ==
    /\ d_pc = "analyze"
    /\ d_request \in Requests
    /\ d_analysis = NoResult
    /\ d_slides = << >>
    /\ d_ret = NoResult
    /\ ContentOff
    /\ LayoutOff
    /\ AssetsOff
    /\ StyleOff
    /\ ConcOff
    /\ ProjOff
    /\ ValidOff
    /\ SuggestOff

\* Layer 1: the content analysis
DeckAnalyzeContent ==
    /\ d_pc = "analyze"
    /\ d_analysis' = analyzeContent(d_request.content, d_request.audience)
    /\ d_pc' = "slides"
    /\ UNCHANGED <<d_request, d_slides, d_ret, contentVars, layoutVars,
                   assetVars, styleVars, concVars, projVars, validVars, suggestVars>>

\* one turn of the loop over the slide recommendations; an exception of
\* recommendLayout ends the call
DeckGenerateSlide ==
    /\ d_pc = "slides"
    /\ Len(d_slides) < Len(d_analysis.slide_recommendations)
    /\ LET recommendation == d_analysis.slide_recommendations[Len(d_slides) + 1]
           slide == generateSlide(recommendation, d_analysis, d_request, d_slides)
       IN  IF slide.layout.threw
           THEN /\ d_pc' = "threw"
                /\ UNCHANGED d_slides
           ELSE /\ d_slides' = Append(d_slides, slide)
                /\ UNCHANGED d_pc
    /\ UNCHANGED <<d_request, d_analysis, d_ret, contentVars, layoutVars,
                   assetVars, styleVars, concVars, projVars, validVars, suggestVars>>

\* after the loop: metadata, quality metrics, suggestions and the result
DeckReturn ==
    /\ d_pc = "slides"
    /\ Len(d_slides) = Len(d_analysis.slide_recommendations)
    /\ d_ret' = deckResult(d_slides, d_analysis, d_request)
    /\ d_pc' = "done"
    /\ UNCHANGED <<d_request, d_analysis, d_slides, contentVars, layoutVars,
                   assetVars, styleVars, concVars, projVars, validVars, suggestVars>>

Next ==
    \/ DeckAnalyzeContent
    \/ DeckGenerateSlide
    \/ DeckReturn

Spec == InitDeck /\ [][Next]_vars

-----------------------------------------------------------------------------
(* A call of generateSlideDeck whose asset sources may fail.  In each turn *)
(* of the loop the try blocks of the searches answer or throw; a_query,     *)
(* a_locals and a_ret hold the curateAssets call of the last turn.          *)

AllSources == {"unsplash", "iconify", "freepik"}

\* the sources that fail in a turn
FailingChoices == {{}, {"iconify"}, AllSources}

FailingRequests ==
    [content : {[fill |-> 0, tail |-> t] :
                   t \in SeqsUpTo(DeckVocab, MaxDeckTail) \ {<<>>}},
     audience : {"executive"},
     presentation_type : {"business"}, brand_guidelines : {"hatch-corporate"},
     time_constraint : {<< >>}]

InitDeckFailing ==
    /\ d_pc = "analyze"
    /\ d_request \in FailingRequests
    /\ d_analysis = NoResult
    /\ d_slides = << >>
    /\ d_ret = NoResult
    /\ ContentOff
    /\ LayoutOff
    /\ AssetsOff
    /\ StyleOff
    /\ ConcOff
    /\ ProjOff
    /\ ValidOff
    /\ SuggestOff

\* what the try block of a search comes to
outcomeOf(fails, answer) ==
    IF fails THEN [threw |-> TRUE, value |-> << >>]
    ELSE [threw |-> FALSE, value |-> answer]

\* one turn of the loop over the slide recommendations, the sources of
\* failed throwing in their try blocks
DeckGenerateSlideFailing ==
    /\ d_pc = "slides"
    /\ Len(d_slides) < Len(d_analysis.slide_recommendations)
    /\ \E failed \in FailingChoices :
        LET recommendation == d_analysis.slide_recommendations[Len(d_slides) + 1]
            layoutRecommendation_ ==
                recommendLayout(recommendation.slide_type,
                                d_analysis.content_density,
                                d_request.audience, TRUE)
            query == assetQuery(recommendation, d_request)
            searchTerms == extractSearchTerms(query.content_context)
            styleFilter == getStyleFilter(query.preferred_style)
            unsplash == searchCaught(outcomeOf("unsplash" \in failed,
                                               searchUnsplash(searchTerms, styleFilter)))
            iconify == searchCaught(outcomeOf("iconify" \in failed,
                                              searchIconify(searchTerms)))
            freepik == searchCaught(outcomeOf("freepik" \in failed,
                                              searchFreepik(searchTerms, styleFilter)))
            assetRecommendation ==
                curateFrom(unsplash.value, iconify.value, freepik.value, query)
        IN  IF layoutRecommendation_.threw \/ unsplash.threw \/ iconify.threw
               \/ freepik.threw
            THEN /\ d_pc' = "threw"
                 /\ UNCHANGED <<d_slides, assetVars>>
            ELSE /\ d_slides' =
                        Append(d_slides,
                               buildSlide(recommendation, d_analysis, d_request,
                                          d_slides, layoutRecommendation_,
                                          assetRecommendation))
                 /\ a_pc' = "done"
                 /\ a_query' = query
                 /\ a_locals' = [searchTerms |-> searchTerms,
                                 styleFilter |-> styleFilter,
                                 unsplashAssets |-> unsplash.value,
                                 iconifyAssets |-> iconify.value,
                                 freepikAssets |-> freepik.value,
                                 failed |-> failed]
                 /\ a_ret' = assetRecommendation
                 /\ UNCHANGED d_pc
    /\ UNCHANGED <<d_request, d_analysis, d_ret, contentVars, layoutVars,
                   styleVars, concVars, projVars, validVars, suggestVars>>

NextDeckFailing ==
    \/ DeckAnalyzeContent
    \/ DeckGenerateSlideFailing
    \/ DeckReturn

SpecDeckFailing == InitDeckFailing /\ [][NextDeckFailing]_vars

-----------------------------------------------------------------------------
(* generateSlideDeck calls in flight together.  The engine runs one call    *)
(* at a time up to its next await; there another call may be invoked or     *)
(* resumed.  A call awaits the three searches inside curateAssets, one      *)
(* after the other, and curateAssets itself, in every turn of its loop.     *)

\* the requests of the calls
ConcurrentRequests ==
    { [content |-> [fill |-> 0, tail |-> <<S_strategy>>],
       audience |-> "executive", presentation_type |-> "business",
       brand_guidelines |-> "hatch-corporate", time_constraint |-> <<2>>],
      [content |-> [fill |-> 398, tail |-> <<S_approach>>],
       audience |-> "general", presentation_type |-> "business",
       brand_guidelines |-> "hatch-corporate", time_constraint |-> <<4>>] }

\* a call not yet invoked.  overlapped is a history field: whether another
\* call was in flight at one of the steps of this one.
newCall(request) ==
    [pc |-> "new", request |-> request, analysis |-> NoResult, i |-> 0,
     slides |-> << >>, layout |-> NoResult, locals |-> NoResult,
     assets |-> NoResult, ret |-> NoResult, overlapped |-> FALSE]

staticMembers == [layouts |-> layouts, hatchBrandTokens |-> hatchBrandTokens]

InitConcurrent ==
    /\ k_calls \in [1..NumCalls -> {newCall(r) : r \in ConcurrentRequests}]
    /\ k_static = staticMembers
    /\ ContentOff
    /\ LayoutOff
    /\ AssetsOff
    /\ StyleOff
    /\ DeckOff
    /\ ProjOff
    /\ ValidOff
    /\ SuggestOff

inFlight(call) == call.pc \notin {"new", "done", "threw"}

\* a slip: the slide list is a static member, the list of the first call
ownSlides_static(calls, c) == calls[1].slides

\* `const slides: GeneratedSlide[] = []`: the list a call reads and pushes to
\* is the one of its own invocation
ownSlides(calls, c) == calls[c].slides

\* the loop of generateSlideDeck at the start of a turn, run to the next
\* await: the layout and curateAssets up to the Unsplash search; or, the
\* recommendations exhausted, the rest of the call
nextTurn(call) ==
    IF call.i > Len(call.analysis.slide_recommendations)
    THEN [call EXCEPT !.pc = "done",
                      !.ret = deckResult(call.slides, call.analysis, call.request)]
    ELSE LET recommendation == call.analysis.slide_recommendations[call.i]
             layoutRecommendation_ ==
                 recommendLayout(recommendation.slide_type,
                                 call.analysis.content_density,
                                 call.request.audience, TRUE)
             query == assetQuery(recommendation, call.request)
             searchTerms == extractSearchTerms(query.content_context)
             styleFilter == getStyleFilter(query.preferred_style)
         IN  IF layoutRecommendation_.threw
             THEN [call EXCEPT !.pc = "threw"]
             ELSE [call EXCEPT
                      !.pc = "unsplash",
                      !.layout = layoutRecommendation_,
                      !.locals = [query |-> query,
                                  searchTerms |-> searchTerms,
                                  styleFilter |-> styleFilter,
                                  unsplashAssets |-> searchUnsplash(searchTerms, styleFilter),
                                  iconifyAssets |-> << >>,
                                  freepikAssets |-> << >>]]

\* a step of call c to the record next; the history field is kept
StepCall(c, next) ==
    /\ k_calls' = [k_calls EXCEPT ![c] =
           [next EXCEPT !.overlapped =
               \/ k_calls[c].overlapped
               \/ \E o \in DOMAIN k_calls : o # c /\ inFlight(k_calls[o])]]
    /\ UNCHANGED <<k_static, contentVars, layoutVars, assetVars, styleVars, deckVars,
                   projVars, validVars, suggestVars>>

\* the call is made: the content analysis and the first turn of the loop
InvokeDeck(c) ==
    /\ k_calls[c].pc = "new"
    /\ StepCall(c, nextTurn([k_calls[c] EXCEPT
                               !.analysis = analyzeContent(k_calls[c].request.content,
                                                           k_calls[c].request.audience),
                               !.i = 1]))

\* the Unsplash search has answered: the Iconify search
ResumeUnsplash(c) ==
    /\ k_calls[c].pc = "unsplash"
    /\ StepCall(c, [k_calls[c] EXCEPT
                       !.pc = "iconify",
                       !.locals.iconifyAssets = searchIconify(k_calls[c].locals.searchTerms)])

\* the Iconify search has answered: the Freepik search
ResumeIconify(c) ==
    /\ k_calls[c].pc = "iconify"
    /\ StepCall(c, [k_calls[c] EXCEPT
                       !.pc = "freepik",
                       !.locals.freepikAssets =
                           searchFreepik(k_calls[c].locals.searchTerms,
                                         k_calls[c].locals.styleFilter)])

\* the Freepik search has answered: the rest of curateAssets
ResumeFreepik(c) ==
    /\ k_calls[c].pc = "freepik"
    /\ StepCall(c, [k_calls[c] EXCEPT
                       !.pc = "curated",
                       !.assets = curateFrom(k_calls[c].locals.unsplashAssets,
                                             k_calls[c].locals.iconifyAssets,
                                             k_calls[c].locals.freepikAssets,
                                             k_calls[c].locals.query)])

\* curateAssets has returned: the style, the markdown, the slide pushed, and
\* the next turn of the loop
ResumeCurated(c) ==
    /\ k_calls[c].pc = "curated"
    /\ LET call == k_calls[c]
           slides == ownSlides(k_calls, c)
           slide == buildSlide(call.analysis.slide_recommendations[call.i],
                               call.analysis, call.request, slides,
                               call.layout, call.assets)
       IN  StepCall(c, nextTurn([call EXCEPT !.slides = Append(slides, slide),
                                             !.i = call.i + 1]))

NextConcurrent ==
    \E c \in DOMAIN k_calls :
        \/ InvokeDeck(c)
        \/ ResumeUnsplash(c)
        \/ ResumeIconify(c)
        \/ ResumeFreepik(c)
        \/ ResumeCurated(c)

SpecConcurrent == InitConcurrent /\ [][NextConcurrent]_vars

-----------------------------------------------------------------------------
(* The initialize_project tool: initializeProject of the tool builds a     *)
(* ProjectInitializationRequest and awaits                                 *)
(* ProcessOrchestrator.initializeProject, which awaits one file-system     *)
(* step after the other. enabledSteps is an array the code reads through   *)
(* includes() only: it is a set here, and << >> stands for an argument     *)
(* that was not supplied. Of the results, success and stepsCompleted are   *)
(* kept.                                                                   *)

ProcessModes == {"complete", "slides-only", "quick"}

OptionalSteps == {"story", "idea", "slides", "assets"}

InitializeArgs ==
    [processMode : ProcessModes,
     enabledSteps : {<< >>} \cup {<<steps>> : steps \in SUBSET OptionalSteps}]

\* the switch on processMode of the tool, taken when no enabledSteps came
defaultSteps(processMode) ==
    CASE processMode = "complete" -> {"story", "idea", "slides", "assets"}
      [] processMode = "slides-only" -> {"slides"}
      [] processMode = "quick" -> {"slides", "assets"}

initializationRequest(args) ==
    [processMode |-> args.processMode,
     enabledSteps |-> IF args.enabledSteps = << >>
                      THEN defaultSteps(args.processMode)
                      ELSE args.enabledSteps[1]]

stepName(step) ==
    CASE step = "story" -> "Story Architecture"
      [] step = "main" -> "Main Idea"
      [] step = "idea" -> "Idea Development"
      [] step = "slides" -> "Slides Deck"
      [] step = "assets" -> "Assets Deck"

\* the condition ProcessOrchestrator.initializeProject puts before a step
stepCondition(step, request) ==
    CASE step = "story" ->
             request.processMode = "complete" \/ "story" \in request.enabledSteps
      [] step = "main" -> TRUE
      [] step = "idea" ->
             request.processMode = "complete" \/ "idea" \in request.enabledSteps
      [] step = "slides" ->
             request.processMode # "quick" \/ "slides" \in request.enabledSteps
      [] step = "assets" ->
             request.processMode = "complete" \/ "assets" \in request.enabledSteps

InitProject ==
    /\ p_pc = "tool"
    /\ p_args \in InitializeArgs
    /\ p_request = NoResult
    /\ p_steps = << >>
    /\ p_result = NoResult
    /\ p_ret = NoResult
    /\ ContentOff
    /\ LayoutOff
    /\ AssetsOff
    /\ StyleOff
    /\ DeckOff
    /\ ConcOff
    /\ ValidOff
    /\ SuggestOff

\* a slip: the catch reports no step as completed
orchestratorFailed_noSteps(stepsCompleted) ==
    [success |-> FALSE, stepsCompleted |-> << >>]

\* the catch of ProcessOrchestrator.initializeProject
orchestratorFailed(stepsCompleted) ==
    [success |-> FALSE, stepsCompleted |-> stepsCompleted]

\* the tool, up to its await of ProcessOrchestrator.initializeProject
ToolInitializeProject ==
    /\ p_pc = "tool"
    /\ p_request' = initializationRequest(p_args)
    /\ p_pc' = "mkdir"
    /\ UNCHANGED <<p_args, p_steps, p_result, p_ret, contentVars, layoutVars,
                   assetVars, styleVars, deckVars, concVars, validVars, suggestVars>>

\* await fs.mkdir(projectPath), which answers or rejects
MakeProjectDirectory ==
    /\ p_pc = "mkdir"
    /\ \E ok \in BOOLEAN :
           IF ok
           THEN p_pc' = "story" /\ UNCHANGED p_result
           ELSE p_pc' = "result" /\ p_result' = orchestratorFailed(p_steps)
    /\ UNCHANGED <<p_args, p_request, p_steps, p_ret, contentVars, layoutVars,
                   assetVars, styleVars, deckVars, concVars, validVars, suggestVars>>

\* one guarded step: its files are written and its name is pushed, or the
\* writing rejects, or the condition is false and the step is passed over
OrchestratorStep(step, next) ==
    /\ p_pc = step
    /\ IF stepCondition(step, p_request)
       THEN \E ok \in BOOLEAN :
                IF ok
                THEN /\ p_steps' = Append(p_steps, stepName(step))
                     /\ p_pc' = next
                     /\ UNCHANGED p_result
                ELSE /\ p_result' = orchestratorFailed(p_steps)
                     /\ p_pc' = "result"
                     /\ UNCHANGED p_steps
       ELSE /\ p_pc' = next
            /\ UNCHANGED <<p_steps, p_result>>
    /\ UNCHANGED <<p_args, p_request, p_ret, contentVars, layoutVars,
                   assetVars, styleVars, deckVars, concVars, validVars, suggestVars>>

CreateStoryArchitecture == OrchestratorStep("story", "main")

CreateMainIdea == OrchestratorStep("main", "idea")

CreateIdeaDevelopment == OrchestratorStep("idea", "slides")

CreateSlidesDeck == OrchestratorStep("slides", "assets")

CreateAssetsDeck == OrchestratorStep("assets", "config")

\* await createProjectConfig, then the return of the orchestrator
CreateProjectConfig ==
    /\ p_pc = "config"
    /\ \E ok \in BOOLEAN :
           p_result' = IF ok
                       THEN [success |-> TRUE, stepsCompleted |-> p_steps]
                       ELSE orchestratorFailed(p_steps)
    /\ p_pc' = "result"
    /\ UNCHANGED <<p_args, p_request, p_steps, p_ret, contentVars, layoutVars,
                   assetVars, styleVars, deckVars, concVars, validVars, suggestVars>>

\* the tool after its await: both branches hand stepsCompleted on
ToolReturn ==
    /\ p_pc = "result"
    /\ p_ret' = [success |-> p_result.success,
                 stepsCompleted |-> p_result.stepsCompleted]
    /\ p_pc' = "done"
    /\ UNCHANGED <<p_args, p_request, p_steps, p_result, contentVars,
                   layoutVars, assetVars, styleVars, deckVars, concVars, validVars, suggestVars>>

NextProject ==
    \/ ToolInitializeProject
    \/ MakeProjectDirectory
    \/ CreateStoryArchitecture
    \/ CreateMainIdea
    \/ CreateIdeaDevelopment
    \/ CreateSlidesDeck
    \/ CreateAssetsDeck
    \/ CreateProjectConfig
    \/ ToolReturn

SpecProject == InitProject /\ [][NextProject]_vars

-----------------------------------------------------------------------------
(* A call of StyleOrchestrationEngine.validateAccessibility.  The names    *)
(* and values of tokens are whole strings here, so the two string          *)
(* operations the function applies to them are tables over the strings     *)
(* that occur: name.includes('font-size') and parseFloat(value), the       *)
(* latter in thousandths, with << >> for NaN.                              *)

nameIncludesFontSize(name) ==
    name \in {"--font-size-xs", "--font-size-sm", "--font-size-base",
              "--font-size-lg", "--font-size-xl", "--font-size-2xl",
              "--font-size-3xl", "--font-size-4xl", "--executive-font-size",
              "--dense-font-size", "--spacious-font-size", "--font-size-caption"}

\* parseFloat reads the longest numeric prefix and ignores what follows it
parseFloat(value) ==
    CASE value = "0.75rem" -> <<750>>
      [] value = "0.875rem" -> <<875>>
      [] value = "1rem" -> <<1000>>
      [] value = "1.125rem" -> <<1125>>
      [] value = "1.25rem" -> <<1250>>
      [] value = "1.5rem" -> <<1500>>
      [] value = "1.875rem" -> <<1875>>
      [] value = "2.25rem" -> <<2250>>
      [] value = "0.25rem" -> <<250>>
      [] value = "0.5rem" -> <<500>>
      [] value = "2rem" -> <<2000>>
      [] value = "3rem" -> <<3000>>
      [] value = "4rem" -> <<4000>>
      [] value = "0.125rem" -> <<125>>
      [] value = "0.375rem" -> <<375>>
      [] value = "400" -> <<400000>>
      [] value = "500" -> <<500000>>
      [] value = "700" -> <<700000>>
      [] value = "12px" -> <<12000>>
      [] value = "0 1px 2px 0 rgba(0, 0, 0, 0.05)" -> <<0>>
      [] value = "0 4px 6px -1px rgba(0, 0, 0, 0.1)" -> <<0>>
      [] value = "0 10px 15px -3px rgba(0, 0, 0, 0.1)" -> <<0>>
      [] OTHER -> << >>

\* validateAccessibility
validateAccessibility(theme) ==
    LET hasReadableFonts ==
            \E i \in 1..Len(theme.tokens) :
                /\ nameIncludesFontSize(theme.tokens[i].name)
                /\ parseFloat(theme.tokens[i].value) # << >>
                /\ parseFloat(theme.tokens[i].value)[1] >= 875
    IN  IF ~hasReadableFonts
        THEN [score |-> ONE - Pct(10),
              issues |-> <<"Font sizes below recommended minimum">>]
        ELSE [score |-> ONE, issues |-> << >>]

\* tokens of the themes validated: two of the brand catalog, two custom
\* tokens of generateCustomTokens, and a caption size given in pixels
ThemeTokens ==
    { [name |-> "--font-size-xs", value |-> "0.75rem",
       category |-> "typography", scope |-> "global"],
      [name |-> "--font-size-sm", value |-> "0.875rem",
       category |-> "typography", scope |-> "global"],
      [name |-> "--spacing-4", value |-> "1rem",
       category |-> "spacing", scope |-> "global"],
      DesignToken("--executive-font-size", "var(--font-size-xl)", "typography"),
      [name |-> "--font-size-caption", value |-> "12px",
       category |-> "typography", scope |-> "theme"] }

Themes ==
    {createHatchCorporateTheme}
    \cup [name : {"custom"},
          tokens : SeqsUpTo(ThemeTokens, MaxTokens),
          components : {<< >>},
          brand_alignment : {ONE},
          accessibility_score : {Pct(95), Pct(80), ONE}]

InitValidate ==
    /\ v_pc = "call"
    /\ v_theme \in Themes
    /\ v_ret = NoResult
    /\ ContentOff
    /\ LayoutOff
    /\ AssetsOff
    /\ StyleOff
    /\ DeckOff
    /\ ConcOff
    /\ ProjOff
    /\ SuggestOff

ValidateAccessibility ==
    /\ v_pc = "call"
    /\ v_ret' = validateAccessibility(v_theme)
    /\ v_pc' = "done"
    /\ UNCHANGED <<v_theme, contentVars, layoutVars, assetVars, styleVars,
                   deckVars, concVars, projVars, suggestVars>>

NextValidate == ValidateAccessibility

SpecValidate == InitValidate /\ [][NextValidate]_vars

-----------------------------------------------------------------------------
(* A call of SlidevBuilderOrchestrator.generateOptimizationSuggestions on  *)
(* its own.  Of a slide it reads estimated_time only, and of the slides    *)
(* their number.                                                           *)

SuggestionSlides ==
    {[i \in 1..n |-> [estimated_time |-> t]] : n \in {1, 10, 11}, t \in {30, 60}}

SuggestionMetrics ==
    [content_quality : {Pct(70), Pct(80), Pct(90)},
     visual_appeal : {Pct(60), Pct(80), Pct(90)},
     accessibility : {Pct(85), Pct(90), Pct(95)},
     brand_alignment : {ONE},
     overall_score : {Pct(85)}]

SuggestionRequests ==
    [content : {[fill |-> 0, tail |-> <<S_Problem>>]},
     audience : {"general"},
     presentation_type : {"business"},
     brand_guidelines : {"hatch-corporate"},
     time_constraint : {<< >>, <<0>>, <<5>>}]

InitSuggest ==
    /\ o_pc = "call"
    /\ o_args \in [slides : SuggestionSlides, metrics : SuggestionMetrics,
                   request : SuggestionRequests]
    /\ o_ret = NoResult
    /\ ContentOff
    /\ LayoutOff
    /\ AssetsOff
    /\ StyleOff
    /\ DeckOff
    /\ ConcOff
    /\ ProjOff
    /\ ValidOff

GenerateOptimizationSuggestions ==
    /\ o_pc = "call"
    /\ o_ret' = generateOptimizationSuggestions(o_args.slides, o_args.metrics,
                                                o_args.request)
    /\ o_pc' = "done"
    /\ UNCHANGED <<o_args, contentVars, layoutVars, assetVars, styleVars,
                   deckVars, concVars, projVars, validVars>>

NextSuggest == GenerateOptimizationSuggestions

SpecSuggest == InitSuggest /\ [][NextSuggest]_vars

-----------------------------------------------------------------------------
(* A call of recommendLayout with any arguments, or a call of              *)
(* generateSlideDeck with the recommendLayout calls it makes.              *)

InitLayoutDeck == InitLayout \/ InitDeck

NextLayoutDeck ==
    \/ RecommendLayout
    \/ DeckAnalyzeContent
    \/ DeckGenerateSlide
    \/ DeckReturn

SpecLayoutDeck == InitLayoutDeck /\ [][NextLayoutDeck]_vars

-----------------------------------------------------------------------------
(* The repository as it is, its three sources answering with their mock    *)
(* data: a call of curateAssets with any query, or a call of               *)
(* generateSlideDeck with the curateAssets calls it makes.                 *)

InitMockDeck == InitAssetsMock \/ InitDeck

NextMockDeck ==
    \/ SearchUnsplash(FALSE)
    \/ SearchIconify(FALSE)
    \/ SearchFreepik(FALSE)
    \/ CurateReturn
    \/ DeckAnalyzeContent
    \/ DeckGenerateSlide
    \/ DeckReturn

SpecMockDeck == InitMockDeck /\ [][NextMockDeck]_vars

-----------------------------------------------------------------------------
(* Properties of analyzeContent.                                           *)

RecTypes(recs) == [i \in 1..Len(recs) |-> recs[i].slide_type]

Mentions(content, a, b) == lowerIncludes(content, a) \/ lowerIncludes(content, b)

TypeRank(t) ==
    CASE t = "hero" -> 1 [] t = "problem" -> 2 [] t = "solution" -> 3
      [] t = "evidence" -> 4 [] t = "action" -> 5 [] OTHER -> 0

(* C1: for every content string and audience, the slide_recommendations    *)
(* that analyzeContent returns has a hero entry as its first element and    *)
(* an action entry as its last element.                                     *)
C1_HeroFirstActionLast ==
    c_pc = "done" =>
        LET recs == c_ret.slide_recommendations
        IN  /\ Len(recs) >= 1
            /\ recs[1].slide_type = "hero"
            /\ recs[Len(recs)].slide_type = "action"

\* analyzeContent has returned for a content that holds the evidence trigger
C1_Witness ==
    /\ c_pc = "done"
    /\ Mentions(c_content, S_result, S_benefit)
    /\ Len(c_ret.slide_recommendations) >= 3

(* C2: between the leading hero and the trailing action there is a problem *)
(* slide iff the content mentions "problem" or "challenge", a solution      *)
(* slide iff it mentions "solution" or "approach", an evidence slide iff    *)
(* it mentions "result" or "benefit" (in any letter case); each at most     *)
(* once, in the order problem, solution, evidence; priorities strictly      *)
(* increase along the list; a content with all three triggers yields        *)
(* exactly hero, problem, solution, evidence, action.                       *)
C2_ConditionalSlides ==
    c_pc = "done" =>
        LET recs == c_ret.slide_recommendations
            types == RecTypes(recs)
            inner == 2..(Len(recs) - 1)
            Has(t) == \E i \in inner : types[i] = t
        IN  /\ Len(recs) >= 2
            /\ \A i \in inner : types[i] \in {"problem", "solution", "evidence"}
            /\ Has("problem") <=> Mentions(c_content, S_problem, S_challenge)
            /\ Has("solution") <=> Mentions(c_content, S_solution, S_approach)
            /\ Has("evidence") <=> Mentions(c_content, S_result, S_benefit)
            /\ \A i, j \in inner : i < j => TypeRank(types[i]) < TypeRank(types[j])
            /\ \A i, j \in 1..Len(recs) : i < j => recs[i].priority < recs[j].priority
            /\ (/\ Mentions(c_content, S_problem, S_challenge)
                /\ Mentions(c_content, S_solution, S_approach)
                /\ Mentions(c_content, S_result, S_benefit))
               => types = <<"hero", "problem", "solution", "evidence", "action">>

\* a content that spells its triggers in capitals and holds all three
C2_Witness ==
    /\ c_pc = "done"
    /\ S_Problem \in pieceSet(c_content)
    /\ S_RESULTS \in pieceSet(c_content)
    /\ Len(c_ret.slide_recommendations) = 5

(* C3: cognitive_load_score is min(10, floor(n / 50)) for n the number of  *)
(* pieces of content.split(' '), hence in 0..10; content_density is high    *)
(* iff the score is > 7, medium iff it is > 4 and <= 7, low otherwise; the  *)
(* empty content has score 0 and density low.                               *)
C3_ScoreAndDensity ==
    c_pc = "done" =>
        LET score == c_ret.content_structure.cognitive_load_score
            density == c_ret.content_density
            n == c_content.fill + Len(c_content.tail)
        IN  /\ score \in 0..10
            /\ n >= 500 => score = 10
            /\ n < 500 => (50 * score <= n /\ n < 50 * (score + 1))
            /\ density = "high" <=> score > 7
            /\ density = "medium" <=> (score > 4 /\ score <= 7)
            /\ density = "low" <=> score <= 4
            /\ c_content = [fill |-> 0, tail |-> <<S_empty>>]
                   => (score = 0 /\ density = "low")

\* a content of 550 pieces or more, where the cap at 10 decides the score
C3_Witness ==
    /\ c_pc = "done"
    /\ c_content.fill + Len(c_content.tail) >= 550
    /\ c_ret.content_structure.cognitive_load_score = 10
    /\ c_ret.content_density = "high"

-----------------------------------------------------------------------------
(* Properties of recommendLayout.                                          *)

CatalogNames == {layouts[i].name : i \in 1..Len(layouts)}

(* C4: recommendLayout is total and follows the ordered rule table: hero   *)
(* -> hero-centered 0.95; problem/solution -> content-split 0.90 with       *)
(* visuals, hero-centered 0.80 without; evidence -> information-grid 0.85   *)
(* at high density, else content-split 0.80; comparison ->                  *)
(* comparison-table 0.90; process/workflow -> process-flow 0.88; any other  *)
(* slide type -> information-grid 0.70 at high density, else content-split  *)
(* 0.75.  It never throws and the pattern is an entry of the catalog.       *)
C4_LayoutRuleTable ==
    l_pc = "done" =>
        LET t == l_args.slideType
            high == l_args.contentDensity = "high"
            vis == l_args.hasVisuals
            Is(name, pct) ==
                /\ l_ret.pattern.name = name
                /\ 100 * l_ret.confidence_score = pct * ONE
        IN  /\ l_ret.threw = FALSE
            /\ \E i \in 1..Len(layouts) : layouts[i] = l_ret.pattern
            /\ t = "hero" => Is("hero-centered", 95)
            /\ (t \in {"problem", "solution"} /\ vis) => Is("content-split", 90)
            /\ (t \in {"problem", "solution"} /\ ~vis) => Is("hero-centered", 80)
            /\ (t = "evidence" /\ high) => Is("information-grid", 85)
            /\ (t = "evidence" /\ ~high) => Is("content-split", 80)
            /\ t = "comparison" => Is("comparison-table", 90)
            /\ t \in {"process", "workflow"} => Is("process-flow", 88)
            /\ (t \notin {"hero", "problem", "solution", "evidence", "comparison",
                          "process", "workflow"} /\ high)
                   => Is("information-grid", 70)
            /\ (t \notin {"hero", "problem", "solution", "evidence", "comparison",
                          "process", "workflow"} /\ ~high)
                   => Is("content-split", 75)

\* a call for a slide type no rule names has returned the density default
C4_Witness ==
    /\ l_pc = "done"
    /\ l_args.slideType = "unlisted"
    /\ l_args.contentDensity = "high"
    /\ l_ret.pattern.name = "information-grid"

(* C5: accessibility_score is 0.8, plus 0.1 if the chosen pattern has a    *)
(* mobile breakpoint, plus 0.1 if its visual hierarchy is F- or Z-pattern,  *)
(* plus 0.05 if the audience is executive and the layout type is hero,      *)
(* capped at 1.0; confidence_score and accessibility_score lie in [0,1].    *)
C5_AccessibilityScore ==
    l_pc = "done" =>
        LET p == l_ret.pattern
            mobile == IF \E i \in 1..Len(p.responsive_breakpoints) :
                             p.responsive_breakpoints[i] = "mobile"
                      THEN 10 ELSE 0
            hierarchy == IF p.visual_hierarchy = "F-pattern"
                            \/ p.visual_hierarchy = "Z-pattern"
                         THEN 10 ELSE 0
            simple == IF l_args.audience = "executive" /\ p.layout_type = "hero"
                      THEN 5 ELSE 0
            sum == 80 + mobile + hierarchy + simple
        IN  /\ 100 * l_ret.accessibility_score = (IF sum > 100 THEN 100 ELSE sum) * ONE
            /\ 0 <= l_ret.accessibility_score /\ l_ret.accessibility_score <= ONE
            /\ 0 <= l_ret.confidence_score /\ l_ret.confidence_score <= ONE

\* a hero slide for an executive audience: mobile and audience boosts apply
C5_Witness ==
    /\ l_pc = "done"
    /\ l_args.audience = "executive"
    /\ l_ret.pattern.layout_type = "hero"
    /\ l_ret.accessibility_score = Pct(95)

-----------------------------------------------------------------------------
(* Properties of curateAssets.                                             *)

\* the candidates the three searches of the call returned
Returned == a_locals.unsplashAssets \o a_locals.iconifyAssets \o a_locals.freepikAssets

Compliant(asset) == asset.brand_compliance /\ asset.cultural_appropriateness

(* C6: whatever candidates the sources return, the assets of the result    *)
(* are at most 5 and each has brand_compliance and                          *)
(* cultural_appropriateness true.                                           *)
C6_AssetsCompliantAtMostFive ==
    a_pc = "done" =>
        /\ Len(a_ret.assets) <= 5
        /\ \A i \in 1..Len(a_ret.assets) :
               /\ a_ret.assets[i].brand_compliance = TRUE
               /\ a_ret.assets[i].cultural_appropriateness = TRUE

\* six compliant candidates and a non-compliant one were returned, and five
\* were selected
C6_Witness ==
    /\ a_pc = "done"
    /\ Len(SelectSeq(Returned, Compliant)) >= 6
    /\ \E i \in 1..Len(Returned) : ~Returned[i].cultural_appropriateness
    /\ Len(a_ret.assets) = 5

(* C7: fallback_options has at most 3 entries and no candidate (object) of *)
(* the call is both in assets and in fallback_options.                      *)
C7_FallbackDisjointAtMostThree ==
    a_pc = "done" =>
        /\ Len(a_ret.fallback_options) <= 3
        /\ \A i \in 1..Len(a_ret.assets) : \A j \in 1..Len(a_ret.fallback_options) :
               a_ret.assets[i].ref # a_ret.fallback_options[j].ref

\* some candidates were selected and more than three were not
C7_Witness ==
    /\ a_pc = "done"
    /\ Len(a_ret.assets) >= 2
    /\ Len(Returned) - Len(a_ret.assets) >= 4
    /\ Len(a_ret.fallback_options) = 3

(* C8: a candidate whose tags or alt text hold a sensitive term (religious, *)
(* political, controversial), which checkCulturalAppropriateness rejects,   *)
(* is in the assets of no curateAssets result, whatever flags the source    *)
(* reported for it.                                                         *)
C8_SensitiveNeverSelected ==
    a_pc = "done" =>
        \A i \in 1..Len(a_ret.assets) :
            checkCulturalAppropriateness(a_ret.assets[i], a_query.content_context)

-----------------------------------------------------------------------------
(* Properties of generateStyleRecommendation.                              *)

Declaration(token) == <<"  ", token.name, ": ", token.value, ";">>

LinesEqual(text, line) == {i \in 1..Len(text) : text[i] = line}

(* C9: the synthesized css_framework holds one custom-property declaration *)
(* for every token of the merged list, the brand catalog followed by the    *)
(* custom tokens of the recommendation, in that order inside the :root      *)
(* block, and one rule block for every component of the theme.              *)
C9_CssDeclaresTokensAndComponents ==
    s_pc = "done" =>
        LET css == s_ret.css_framework
            merged == hatchBrandTokens \o s_ret.custom_tokens
        IN  /\ \A k \in 1..Len(merged) :
                   Cardinality(LinesEqual(css, Declaration(merged[k]))) = 1
            /\ \E r \in 1..Len(css) :
                   /\ css[r] = <<":root {">>
                   /\ r + Len(merged) + 1 <= Len(css)
                   /\ \A k \in 1..Len(merged) : css[r + k] = Declaration(merged[k])
                   /\ css[r + Len(merged) + 1] = <<"}">>
            /\ \A c \in 1..Len(s_ret.theme.components) :
                   Cardinality(LinesEqual(css,
                       <<".", s_ret.theme.components[c].component, " {">>)) = 1

\* a recommendation with custom tokens of all three kinds: five of them
C9_Witness ==
    /\ s_pc = "done"
    /\ Len(s_ret.custom_tokens) = 5
    /\ s_args.slideType = "hero"
    /\ Len(s_ret.theme.components) = 4

-----------------------------------------------------------------------------
(* Properties of generateSlideDeck.                                        *)

(* C10: the overall_score of the quality metrics is the unweighted mean of  *)
(* content_quality, visual_appeal, accessibility and brand_alignment, and   *)
(* lies between 0 and 1.                                                    *)
C10_OverallScoreIsMean ==
    d_pc = "done" =>
        LET m == d_ret.quality_metrics
        IN  /\ 4 * m.overall_score =
                   m.content_quality + m.visual_appeal + m.accessibility
                   + m.brand_alignment
            /\ 0 <= m.overall_score
            /\ m.overall_score <= ONE

\* a deck of five slides whose four metrics are not all equal
C10_Witness ==
    /\ d_pc = "done"
    /\ Len(d_ret.slides) = 5
    /\ d_ret.quality_metrics.content_quality # d_ret.quality_metrics.visual_appeal
    /\ d_ret.quality_metrics.accessibility # d_ret.quality_metrics.brand_alignment
    /\ d_ret.quality_metrics.overall_score > 0

-----------------------------------------------------------------------------
(* Properties of generateSlideDeck calls in flight together.               *)

(* C11: two runs of generateSlideDeck on identical requests, the sources    *)
(* answering deterministically, return the same slide list (ids, types,     *)
(* markdown), the same presentation_metadata, quality_metrics and           *)
(* optimization_suggestions, whether one run follows the other or they      *)
(* overlap.                                                                 *)
C11_IdenticalRequestsSameResult ==
    \A c1, c2 \in DOMAIN k_calls :
        (/\ k_calls[c1].pc = "done"
         /\ k_calls[c2].pc = "done"
         /\ k_calls[c1].request = k_calls[c2].request)
        => LET r1 == k_calls[c1].ret
               r2 == k_calls[c2].ret
           IN  /\ Len(r1.slides) = Len(r2.slides)
               /\ \A n \in 1..Len(r1.slides) :
                      /\ r1.slides[n].id = r2.slides[n].id
                      /\ r1.slides[n].type = r2.slides[n].type
                      /\ r1.slides[n].markdown = r2.slides[n].markdown
               /\ r1.presentation_metadata = r2.presentation_metadata
               /\ r1.quality_metrics = r2.quality_metrics
               /\ r1.optimization_suggestions = r2.optimization_suggestions

\* two runs on the same request have returned, each having taken steps
\* while the other was in flight
C11_Witness ==
    /\ k_calls[1].pc = "done"
    /\ k_calls[2].pc = "done"
    /\ k_calls[1].request = k_calls[2].request
    /\ Len(k_calls[1].ret.slides) = 3
    /\ k_calls[1].overlapped
    /\ k_calls[2].overlapped

(* C16: generateSlideDeck calls for different requests, interleaved at any  *)
(* of their await points, each return the result they return when run       *)
(* alone, none throws, and no call writes the layout catalog or the brand   *)
(* token catalog.                                                           *)
C16_ConcurrentCallsAsAlone ==
    /\ k_static = staticMembers
    /\ \A c \in DOMAIN k_calls :
           /\ k_calls[c].pc # "threw"
           /\ k_calls[c].pc = "done" =>
                  k_calls[c].ret = generateSlideDeck(k_calls[c].request)

\* two calls for different requests have returned, each having taken steps
\* while the other was in flight
C16_Witness ==
    /\ k_calls[1].pc = "done"
    /\ k_calls[2].pc = "done"
    /\ k_calls[1].request # k_calls[2].request
    /\ k_calls[1].overlapped
    /\ k_calls[2].overlapped

-----------------------------------------------------------------------------
(* Properties of the optimization suggestions.                             *)

\* the duration-overage message is among the suggestions
HasOverageMessage(suggestions) ==
    \E n \in 1..Len(suggestions) : suggestions[n][1] = "Presentation duration ("

(* C12: when a time_constraint (minutes) is supplied and the summed         *)
(* estimated_time of the slides exceeds time_constraint * 60 seconds,       *)
(* optimization_suggestions contains the duration-overage message; when     *)
(* the sum does not exceed it, or no time_constraint is supplied, it does   *)
(* not.                                                                     *)
C12_OverageReported ==
    d_pc = "done" =>
        LET totalTime == reduceSum(estimatedTimes(d_ret.slides))
            supplied == d_request.time_constraint # << >>
        IN  HasOverageMessage(d_ret.optimization_suggestions)
            <=> (supplied /\ totalTime > d_request.time_constraint[1] * 60)

-----------------------------------------------------------------------------
(* Properties of curateAssets when sources fail.                           *)

\* the answer of a source, nothing when the source is in the set
Without(sources, source, answer) == IF source \in sources THEN << >> ELSE answer

(* C13: for every subset of the asset sources that fail during              *)
(* curateAssets, the call does not throw and returns a recommendation: a    *)
(* failing source contributes no candidate, and the candidates of the      *)
(* other sources are scored and ranked as if the failing sources had        *)
(* returned nothing.                                                        *)
C13_FailingSourcesAbsorbed ==
    /\ a_pc # "threw"
    /\ a_pc = "done" =>
           /\ \A n \in 1..Len(Returned) : Returned[n].source \notin a_locals.failed
           /\ a_ret = curateFrom(
                  Without(a_locals.failed, "unsplash", a_locals.unsplashAssets),
                  Without(a_locals.failed, "iconify", a_locals.iconifyAssets),
                  Without(a_locals.failed, "freepik", a_locals.freepikAssets),
                  a_query)
           /\ \A n \in 1..Len(a_ret.assets) :
                  a_ret.assets[n].source \notin a_locals.failed
           /\ \A n \in 1..Len(a_ret.fallback_options) :
                  a_ret.fallback_options[n].source \notin a_locals.failed

\* two sources failed and the candidates of the third were selected
C13_Witness ==
    /\ a_pc = "done"
    /\ a_locals.failed = {"unsplash", "freepik"}
    /\ Len(a_ret.assets) >= 2

(* C14: a slow asset source does not block the others: a call that awaits a *)
(* source which never answers is not held there, it can go on (to the       *)
(* remaining sources and to its return).                                    *)
C14_SlowSourceDoesNotBlock ==
    (a_pc \in {"pending_unsplash", "pending_iconify", "pending_freepik"})
        => ENABLED NextAssetsSlow

-----------------------------------------------------------------------------
(* Properties of generateSlideDeck when sources fail.                      *)

\* the add-more-visuals suggestion is among the suggestions
HasVisualsSuggestion(suggestions) ==
    \E n \in 1..Len(suggestions) :
        suggestions[n][1] =
            "Add more visual elements like charts, diagrams, or high-quality images"

(* C15: generateSlideDeck always produces a presentation: it never raises,  *)
(* a slide for which every asset source failed has an empty assets list,    *)
(* the result holds one slide for each recommendation, and when every       *)
(* source failed for every slide the add-more-visuals suggestion is among   *)
(* the optimization_suggestions.                                            *)
C15_DeckProducedWhenSourcesFail ==
    /\ d_pc # "threw"
    /\ (d_slides # << >> /\ a_pc = "done" /\ a_locals.failed = AllSources)
           => d_slides[Len(d_slides)].assets.assets = << >>
    /\ d_pc = "done" =>
           /\ Len(d_ret.slides) = Len(d_analysis.slide_recommendations)
           /\ \A n \in 1..Len(d_ret.slides) :
                  d_ret.slides[n].type = d_analysis.slide_recommendations[n].slide_type
           /\ (\A n \in 1..Len(d_ret.slides) : d_ret.slides[n].assets.assets = << >>)
                  => HasVisualsSuggestion(d_ret.optimization_suggestions)

\* a deck of five slides was returned, every source having failed for each
C15_Witness ==
    /\ d_pc = "done"
    /\ Len(d_ret.slides) = 5
    /\ \A n \in 1..Len(d_ret.slides) : d_ret.slides[n].assets.assets = << >>
    /\ a_locals.failed = AllSources

-----------------------------------------------------------------------------
(* Properties of initialize_project.                                       *)

StepsOf(stepsCompleted) == {stepsCompleted[n] : n \in 1..Len(stepsCompleted)}

(* C17: when initialize_project is given enabledSteps and succeeds, the     *)
(* optional steps in stepsCompleted (Story Architecture, Idea Development,  *)
(* Slides Deck, Assets Deck) are exactly the ones enabledSteps lists,       *)
(* whatever processMode is, and Main Idea is in stepsCompleted.             *)
C17_EnabledStepsOverrideMode ==
    (p_pc = "done" /\ p_ret.success /\ p_args.enabledSteps # << >>) =>
        /\ StepsOf(p_ret.stepsCompleted) \ {"Main Idea"}
               = {stepName(step) : step \in p_args.enabledSteps[1]}
        /\ "Main Idea" \in StepsOf(p_ret.stepsCompleted)

\* with processMode "quick" the steps run are the ones enabledSteps lists
EnabledStepsDecideInQuickMode ==
    (p_pc = "done" /\ p_ret.success /\ p_args.enabledSteps # << >>
        /\ p_args.processMode = "quick") =>
        /\ StepsOf(p_ret.stepsCompleted) \ {"Main Idea"}
               = {stepName(step) : step \in p_args.enabledSteps[1]}
        /\ "Main Idea" \in StepsOf(p_ret.stepsCompleted)

-----------------------------------------------------------------------------
(* Properties of the scores of curateAssets.                               *)

\* the candidates of the result: the selected ones, then the fallback ones
Curated == a_ret.assets \o a_ret.fallback_options

\* the score the rule table gives a candidate of a source, before clamping
RuleTableScore(asset, query) ==
    asset.semantic_score
        + (IF query.slide_type = "hero" /\ asset.type = "image" THEN Pct(10) ELSE 0)
        + (IF query.slide_type = "process" /\ asset.type = "icon" THEN Pct(15) ELSE 0)
        + (IF query.target_audience = "executive"
              /\ arrayIncludes(asset.tags, S_professional) THEN Pct(10) ELSE 0)
        - (IF asset.license = "premium"
              /\ ~contentIncludes(query.content_context, S_premium)
           THEN Pct(5) ELSE 0)

Clamp01(score) == IF score < 0 THEN 0 ELSE IF score > ONE THEN ONE ELSE score

(* C18: every candidate of a curateAssets result carries the score of its  *)
(* source plus 0.10 for an image on a hero slide, plus 0.15 for an icon on  *)
(* a process slide, plus 0.10 for a candidate tagged professional with an   *)
(* executive audience, minus 0.05 for a premium license when the content    *)
(* does not mention premium, clamped to [0,1].                              *)
C18_ScoreRuleTableClamped ==
    a_pc = "done" =>
        \A i \in 1..Len(Curated) :
            /\ Curated[i].semantic_score
                   = Clamp01(RuleTableScore(Returned[Curated[i].ref], a_query))
            /\ Curated[i].semantic_score >= 0
            /\ Curated[i].semantic_score <= ONE

\* the scores follow the rule table with the upper clamp alone
ScoreRuleTableClampedAbove ==
    a_pc = "done" =>
        \A i \in 1..Len(Curated) :
            Curated[i].semantic_score
                = Min(ONE, RuleTableScore(Returned[Curated[i].ref], a_query))

\* the scored candidates the result does not select
NotSelected ==
    SelectSeq(scoreAssets(Returned, a_query),
              LAMBDA asset : \A i \in 1..Len(a_ret.assets) :
                                 a_ret.assets[i].ref # asset.ref)

\* the selected assets are the compliant candidates with the best scores, at
\* most five, in descending order of score
AssetsAreTopCompliant ==
    a_pc = "done" =>
        LET scored == scoreAssets(Returned, a_query)
            compliant == SelectSeq(scored, Compliant)
            selected == a_ret.assets
        IN  /\ Len(selected) = Min(5, Len(compliant))
            /\ \A i \in 1..Len(selected) : Compliant(selected[i])
            /\ \A i, j \in 1..Len(selected) :
                   i < j => selected[i].semantic_score >= selected[j].semantic_score
            /\ \A i \in 1..Len(NotSelected) : \A j \in 1..Len(selected) :
                   Compliant(NotSelected[i])
                       => NotSelected[i].semantic_score <= selected[j].semantic_score

(* C19: the assets of a curateAssets result are the compliant candidates   *)
(* in descending order of score, at most five, and fallback_options are     *)
(* the best scored of the candidates not selected, at most three: no        *)
(* candidate that is neither selected nor a fallback has a higher score     *)
(* than a fallback.                                                         *)
C19_FallbackAreNextBest ==
    /\ AssetsAreTopCompliant
    /\ a_pc = "done" =>
           LET fallback == a_ret.fallback_options
               leftOut == SelectSeq(NotSelected,
                                    LAMBDA asset : \A i \in 1..Len(fallback) :
                                                       fallback[i].ref # asset.ref)
           IN  /\ Len(fallback) = Min(3, Len(NotSelected))
               /\ \A i \in 1..Len(leftOut) : \A j \in 1..Len(fallback) :
                      leftOut[i].semantic_score <= fallback[j].semantic_score

\* the scores of the selected assets
SelectedScores == [i \in 1..Len(a_ret.assets) |-> a_ret.assets[i].semantic_score]

\* how many of the selected assets are brand compliant
SelectedBrandCompliant ==
    Cardinality({i \in 1..Len(a_ret.assets) : a_ret.assets[i].brand_compliance})

(* C20: the confidence_score of a curateAssets result is 0.7 times the mean *)
(* score of the selected assets plus 0.3 times the share of them that are   *)
(* brand compliant, it is 0 when no asset is selected, and it lies in       *)
(* [0,1].                                                                   *)
C20_ConfidenceIsWeightedMean ==
    a_pc = "done" =>
        LET n == Len(a_ret.assets)
        IN  /\ n = 0 => a_ret.confidence_score = 0
            /\ n > 0 => 10 * n * a_ret.confidence_score
                            = 7 * reduceSum(SelectedScores)
                                  + 3 * ONE * SelectedBrandCompliant
            /\ a_ret.confidence_score >= 0
            /\ a_ret.confidence_score <= ONE

\* three assets of different scores are selected, one of them with a score
\* below zero
C20_Witness ==
    /\ a_pc = "done"
    /\ Len(a_ret.assets) = 3
    /\ \E i \in 1..3 : a_ret.assets[i].semantic_score < 0
    /\ \E i \in 1..3 : a_ret.assets[i].semantic_score = ONE
    /\ a_ret.confidence_score > 0

\* no asset is selected: every search failed or answered nothing compliant
NothingSelectedReached ==
    /\ a_pc = "done"
    /\ a_ret.assets = << >>
    /\ Returned # << >>
    /\ a_ret.confidence_score = 0

-----------------------------------------------------------------------------
(* Properties of extractSearchTerms.                                       *)

\* the content words of the query: its pieces in lower case without the
\* characters that are no word characters, those longer than 3 characters
\* that are no stop word
ContentWords ==
    LET content == a_query.content_context
        n == content.fill + Len(content.tail)
    IN  SelectSeq([i \in 1..n |-> stripNonWord(toLowerCase(pieceAt(content, i)))],
                  isSearchWord)

BusinessWords == SelectSeq(ContentWords, LAMBDA word : word \in businessTermList)

\* the search terms are content words, at most 10 and without duplicates
SearchTermsAreContentWords ==
    a_locals # NoResult =>
        LET terms == a_locals.searchTerms
        IN  /\ Len(terms) <= 10
            /\ \A i, j \in 1..Len(terms) : terms[i] = terms[j] => i = j
            /\ \A i \in 1..Len(terms) : arrayIncludes(ContentWords, terms[i])

(* C21: the search terms of a curateAssets call are at most 10 content     *)
(* words without duplicates: the business-vocabulary words of the content   *)
(* first, then the first content words in their order, until 10 terms are   *)
(* reached or the content words are used up.                                *)
C21_SearchTermsFillTenSlots ==
    /\ SearchTermsAreContentWords
    /\ a_locals # NoResult =>
           a_locals.searchTerms
               = sliceTo(uniqueInOrder(BusinessWords \o ContentWords), 10)

\* the business-vocabulary words first, then the first five content words
SearchTermsTakeFiveWords ==
    a_locals # NoResult =>
        a_locals.searchTerms
            = sliceTo(uniqueInOrder(BusinessWords \o sliceTo(ContentWords, 5)), 10)

-----------------------------------------------------------------------------
(* Properties of validateAccessibility.                                    *)

\* a typography token whose font size is at least 0.875rem
ReadableFontToken(token) ==
    /\ token.category = "typography"
    /\ nameIncludesFontSize(token.name)
    /\ token.value \in {"0.875rem", "1rem", "1.125rem", "1.25rem", "1.5rem",
                        "1.875rem", "2.25rem"}

(* C22: for a theme with no typography font-size token of at least        *)
(* 0.875rem validateAccessibility reports one issue and returns the        *)
(* accessibility score of the theme less 0.1; for a theme with such a      *)
(* token it reports no issue and returns the accessibility score of the    *)
(* theme.                                                                  *)
C22_ValidateReducesThemeScore ==
    v_pc = "done" =>
        IF \E i \in 1..Len(v_theme.tokens) : ReadableFontToken(v_theme.tokens[i])
        THEN /\ v_ret.issues = << >>
             /\ v_ret.score = v_theme.accessibility_score
        ELSE /\ Len(v_ret.issues) = 1
             /\ v_ret.score = v_theme.accessibility_score - Pct(10)

\* the score is 1 less 0.1 for the issue reported, whatever the theme's own
\* accessibility score is
ValidateScoreStartsFromOne ==
    v_pc = "done" =>
        /\ Len(v_ret.issues) <= 1
        /\ v_ret.score = ONE - Pct(10) * Len(v_ret.issues)

\* for themes whose accessibility score is 1 and whose sizes are given in
\* rem, the result is the one described
ValidateAsDescribedForScoreOne ==
    (v_pc = "done" /\ v_theme.accessibility_score = ONE
        /\ \A i \in 1..Len(v_theme.tokens) : v_theme.tokens[i].value # "12px") =>
        IF \E i \in 1..Len(v_theme.tokens) : ReadableFontToken(v_theme.tokens[i])
        THEN v_ret = [score |-> ONE, issues |-> << >>]
        ELSE Len(v_ret.issues) = 1 /\ v_ret.score = ONE - Pct(10)

-----------------------------------------------------------------------------
(* Properties of the loop of generateSlideDeck.                            *)

\* the first n slides are the slides of the first n recommendations
SlidesFollow(slides, recommendations) ==
    /\ Len(slides) <= Len(recommendations)
    /\ \A n \in 1..Len(slides) :
           /\ slides[n].id = <<"slide_", n>>
           /\ slides[n].type = recommendations[n].slide_type
           /\ slides[n].estimated_time = recommendations[n].estimated_time

(* C23: a generateSlideDeck call produces one slide per recommendation, in  *)
(* the ascending priority order of the recommendations: while the stages    *)
(* of slide k are under way slides 1..k-1 and no other are finished, the    *)
(* n-th slide has id slide_n and the type and estimated_time of the n-th    *)
(* recommendation, and the deck returned has as many slides as there are    *)
(* recommendations.                                                         *)
C23_OneSlidePerRecommendationInOrder ==
    \A c \in DOMAIN k_calls :
        LET call == k_calls[c]
            recommendations == call.analysis.slide_recommendations
        IN  call.pc # "new" =>
                /\ \A n \in 1..(Len(recommendations) - 1) :
                       recommendations[n].priority < recommendations[n + 1].priority
                /\ SlidesFollow(call.slides, recommendations)
                /\ inFlight(call) => Len(call.slides) = call.i - 1
                /\ call.pc = "done" =>
                       /\ call.ret.slides = call.slides
                       /\ Len(call.slides) = Len(recommendations)

\* one call is in the asset stage of its third slide with two slides
\* finished, the other has returned its deck
C23_Witness ==
    \E c, o \in DOMAIN k_calls :
        /\ k_calls[c].pc = "iconify"
        /\ k_calls[c].i = 3
        /\ Len(k_calls[c].slides) = 2
        /\ k_calls[o].pc = "done"
        /\ Len(k_calls[o].ret.slides) >= 2

-----------------------------------------------------------------------------
(* Properties of generateOptimizationSuggestions.                          *)

\* the four rule suggestions, in the order of the rules
RuleSuggestions ==
    << <<"Consider expanding content depth or adding more supporting details">>,
       <<"Add more visual elements like charts, diagrams, or high-quality images">>,
       <<"Improve accessibility with better color contrast and alt text">>,
       <<"Consider condensing content - presentations over 10 slides may lose audience attention">> >>

\* the condition of the k-th rule
RuleFires(k) ==
    CASE k = 1 -> o_args.metrics.content_quality < Pct(80)
      [] k = 2 -> o_args.metrics.visual_appeal < Pct(80)
      [] k = 3 -> o_args.metrics.accessibility < Pct(90)
      [] k = 4 -> Len(o_args.slides) > 10

\* the suggestions returned, the duration message left out
RuleSuggestionsReturned ==
    SelectSeq(o_ret, LAMBDA suggestion : suggestion[1] # "Presentation duration (")

(* C24: each of the four rule suggestions (more depth, more visuals,       *)
(* accessibility, condense) is returned iff its own condition holds,        *)
(* whatever the other conditions are, and those returned are in the order   *)
(* of the rules.                                                            *)
C24_RulesIndependentInOrder ==
    o_pc = "done" =>
        LET returned == RuleSuggestionsReturned
        IN  /\ \A k \in 1..4 :
                   RuleFires(k) <=> \E i \in 1..Len(returned) :
                                        returned[i] = RuleSuggestions[k]
            /\ \A i \in 1..Len(returned) :
                   \E k \in 1..4 : returned[i] = RuleSuggestions[k]
            /\ \A i, j \in 1..Len(returned) : \A k, m \in 1..4 :
                   (i < j /\ returned[i] = RuleSuggestions[k]
                          /\ returned[j] = RuleSuggestions[m]) => k < m

\* the four rules fire together
C24_Witness ==
    /\ o_pc = "done"
    /\ \A k \in 1..4 : RuleFires(k)
    /\ RuleSuggestionsReturned = RuleSuggestions

\* the second and the fourth rule fire, the first and the third do not
RulesTwoAndFourAlone ==
    /\ o_pc = "done"
    /\ ~RuleFires(1) /\ RuleFires(2) /\ ~RuleFires(3) /\ RuleFires(4)
    /\ RuleSuggestionsReturned = <<RuleSuggestions[2], RuleSuggestions[4]>>

-----------------------------------------------------------------------------
(* Properties of generateSlideMarkdown.                                    *)

\* the markdown of a slide is that of the template of its type with the
\* title, the content points and the css of the slide
MarkdownInterpolates(slide, recommendation) ==
    /\ slide.markdown.template =
           (IF slide.type \in {"hero", "problem", "solution", "evidence", "action"}
            THEN slide.type ELSE "default")
    /\ slide.markdown.title = slide.title
    /\ slide.markdown.points = recommendation.content_points
    /\ slide.markdown.style = slide.style.css_framework

\* the markdown of a slide embeds the first asset of the slide, and no
\* image when the slide has no asset
MarkdownEmbedsTopAsset(slide) ==
    IF slide.assets.assets = << >>
    THEN slide.markdown.img = undefined
    ELSE slide.markdown.img = [src |-> slide.assets.assets[1].url,
                               alt |-> slide.assets.assets[1].alt_text]

(* C25: the markdown of every slide of a deck is that of the template of   *)
(* the slide's type, and interpolates the title of the slide, each of its   *)
(* content points, the synthesized CSS, and the top curated asset whenever  *)
(* the slide has an asset; with no asset it embeds no image.                *)
C25_MarkdownInterpolatesTopAsset ==
    d_pc \in {"slides", "done"} =>
        \A n \in 1..Len(d_slides) :
            /\ MarkdownInterpolates(d_slides[n], d_analysis.slide_recommendations[n])
            /\ MarkdownEmbedsTopAsset(d_slides[n])

\* every slide but the action slide embeds its top asset; the action slide
\* never embeds an image
MarkdownEmbedsTopAssetButAction ==
    d_pc \in {"slides", "done"} =>
        \A n \in 1..Len(d_slides) :
            /\ MarkdownInterpolates(d_slides[n], d_analysis.slide_recommendations[n])
            /\ IF d_slides[n].type = "action"
               THEN d_slides[n].markdown.img = undefined
               ELSE MarkdownEmbedsTopAsset(d_slides[n])

-----------------------------------------------------------------------------
(* Properties of the component overrides.                                  *)

\* the css text holds the opening line of the rule block of a component
HasRuleBlock(css, component) ==
    LinesEqual(css, <<".", component.component, " {">>) # {}

(* C26: every component override of a style recommendation                 *)
(* (comparison-grid, timeline-container, content-container) has its rule    *)
(* block in the css_framework of that recommendation, and a responsive      *)
(* override has its media block there.                                      *)
C26_OverridesInCssFramework ==
    s_pc = "done" =>
        \A c \in 1..Len(s_ret.component_overrides) :
            LET override == s_ret.component_overrides[c]
            IN  /\ HasRuleBlock(s_ret.css_framework, override)
                /\ override.responsive # << >> =>
                       LinesEqual(s_ret.css_framework,
                                  <<"  .", override.component, " {">>) # {}

\* the css_framework holds the rule block of no component override: it is
\* the same text whatever the overrides are
OverridesNeverInCssFramework ==
    s_pc = "done" =>
        /\ \A c \in 1..Len(s_ret.component_overrides) :
               ~HasRuleBlock(s_ret.css_framework, s_ret.component_overrides[c])
        /\ s_ret.css_framework
               = generateCSSFramework(s_ret.theme, s_ret.custom_tokens)

\* recommendations with each of the three overrides are reached
OverridesReached ==
    /\ s_pc = "done"
    /\ s_args.slideType = "timeline"
    /\ Len(s_ret.component_overrides) = 2

-----------------------------------------------------------------------------
(* Properties of the size of a deck.                                       *)

\* 1 if the deck has a slide of the type, else 0
HasType(slides, type) ==
    IF \E n \in 1..Len(slides) : slides[n].type = type THEN 1 ELSE 0

HasCondenseSuggestion(suggestions) ==
    \E n \in 1..Len(suggestions) :
        suggestions[n][1] =
            "Consider condensing content - presentations over 10 slides may lose audience attention"

(* C27: every deck generateSlideDeck returns has between 2 and 5 slides and *)
(* an estimated_duration of 75 seconds plus 60 for a problem slide, 90 for  *)
(* a solution slide and 60 for an evidence slide, so between 75 and 285;    *)
(* the condense suggestion is never among its suggestions, and with a       *)
(* time_constraint of 5 minutes or more the overage message is not either.  *)
C27_DeckSizeAndDuration ==
    d_pc = "done" =>
        LET slides == d_ret.slides
            duration == d_ret.presentation_metadata.estimated_duration
        IN  /\ Len(slides) >= 2
            /\ Len(slides) <= 5
            /\ d_ret.presentation_metadata.total_slides = Len(slides)
            /\ duration = 75 + 60 * HasType(slides, "problem")
                             + 90 * HasType(slides, "solution")
                             + 60 * HasType(slides, "evidence")
            /\ duration >= 75
            /\ duration <= 285
            /\ ~HasCondenseSuggestion(d_ret.optimization_suggestions)
            /\ (d_request.time_constraint # << >>
                    /\ d_request.time_constraint[1] >= 5)
                   => ~HasOverageMessage(d_ret.optimization_suggestions)

\* a deck of five slides and 285 seconds for a request with a
\* time_constraint of 5 minutes
C27_Witness ==
    /\ d_pc = "done"
    /\ Len(d_ret.slides) = 5
    /\ d_ret.presentation_metadata.estimated_duration = 285
    /\ d_request.time_constraint = <<5>>

\* a deck of two slides and 75 seconds
SmallestDeckReached ==
    /\ d_pc = "done"
    /\ Len(d_ret.slides) = 2
    /\ d_ret.presentation_metadata.estimated_duration = 75

-----------------------------------------------------------------------------
(* Properties of the accessibility of the layouts chosen.                  *)

HasAccessibilitySuggestion(suggestions) ==
    \E n \in 1..Len(suggestions) :
        suggestions[n][1] =
            "Improve accessibility with better color contrast and alt text"

\* the layout recommendation is not for the process-timeline pattern and
\* its accessibility score is 0.9 or more
NotTimeline(recommendation) ==
    /\ recommendation.pattern.name # "process-timeline"
    /\ recommendation.accessibility_score >= Pct(90)

(* C28: recommendLayout selects the process-timeline pattern for no input, *)
(* and the accessibility_score of every layout it returns is 0.9 or more;   *)
(* in every deck of generateSlideDeck the mean accessibility is therefore   *)
(* 0.9 or more and the accessibility suggestion is not emitted.             *)
C28_TimelineNeverSelected ==
    /\ l_pc = "done" => NotTimeline(l_ret)
    /\ d_pc \in {"slides", "done"} =>
           \A n \in 1..Len(d_slides) : NotTimeline(d_slides[n].layout)
    /\ d_pc = "done" =>
           /\ d_ret.quality_metrics.accessibility >= Pct(90)
           /\ d_ret.presentation_metadata.accessibility_score >= Pct(90)
           /\ ~HasAccessibilitySuggestion(d_ret.optimization_suggestions)

\* a deck of five slides whose mean accessibility is 0.9, the threshold of
\* the suggestion
C28_Witness ==
    /\ d_pc = "done"
    /\ Len(d_ret.slides) = 5
    /\ d_ret.quality_metrics.accessibility = Pct(90)

\* recommendLayout has answered for a timeline slide
TimelineSlideReached ==
    /\ l_pc = "done"
    /\ l_args.slideType = "timeline"
    /\ l_ret.accessibility_score = Pct(90)

-----------------------------------------------------------------------------
(* Properties of curateAssets with the built-in sources.                   *)

\* every candidate of at most five is selected and none is a fallback
AllSelected(candidates, recommendation) ==
    /\ Len(candidates) <= 5
    /\ Len(recommendation.assets) = Len(candidates)
    /\ \A i \in 1..Len(candidates) :
           \E j \in 1..Len(recommendation.assets) : recommendation.assets[j].ref = i
    /\ recommendation.assets # << >>
    /\ recommendation.fallback_options = << >>

(* C29: with the three built-in sources answering, curateAssets has at     *)
(* most 5 candidates for every query, selects each of them into assets     *)
(* and returns no fallback_options; the assets of every slide of a deck    *)
(* are then not empty, visual_appeal is 0.9 and the more-visuals           *)
(* suggestion is not emitted.                                              *)
C29_MockCandidatesAllSelected ==
    /\ a_pc = "done" => AllSelected(Returned, a_ret)
    /\ d_pc \in {"slides", "done"} =>
           \A n \in 1..Len(d_slides) :
               /\ d_slides[n].assets.assets # << >>
               /\ Len(d_slides[n].assets.assets) <= 5
               /\ d_slides[n].assets.fallback_options = << >>
    /\ d_pc = "done" =>
           /\ d_ret.quality_metrics.visual_appeal = Pct(90)
           /\ ~HasVisualsSuggestion(d_ret.optimization_suggestions)

\* curateAssets has returned five assets: the Unsplash image, three icons
\* and the Freepik image
C29_Witness ==
    /\ a_pc = "done"
    /\ Len(a_locals.iconifyAssets) = 3
    /\ Len(a_locals.searchTerms) > 3
    /\ Len(a_ret.assets) = 5

\* a deck is returned whose slides have five assets each
MockDeckReached ==
    /\ d_pc = "done"
    /\ \A n \in 1..Len(d_ret.slides) : Len(d_ret.slides[n].assets.assets) = 5

-----------------------------------------------------------------------------
(* Properties of ProcessOrchestrator.initializeProject.                    *)

\* the place of a position of the call in the fixed order of the steps
PositionRank(pc) ==
    CASE pc = "tool" -> 0 [] pc = "mkdir" -> 1 [] pc = "story" -> 2
      [] pc = "main" -> 3 [] pc = "idea" -> 4 [] pc = "slides" -> 5
      [] pc = "assets" -> 6 [] pc = "config" -> 7 [] pc = "result" -> 8
      [] pc = "done" -> 9

StepRank(name) ==
    CASE name = "Story Architecture" -> 2 [] name = "Main Idea" -> 3
      [] name = "Idea Development" -> 4 [] name = "Slides Deck" -> 5
      [] name = "Assets Deck" -> 6

\* what one step of an initialize_project call does
ProjectStepInOrder ==
    \* the call moves forward in the fixed order and runs no step twice
    /\ PositionRank(p_pc') > PositionRank(p_pc)
    \* a step that finishes is pushed, and it is the step of the position left
    /\ \/ p_steps' = p_steps
       \/ /\ p_pc \in {"story", "main", "idea", "slides", "assets"}
          /\ p_steps' = Append(p_steps, stepName(p_pc))
          /\ p_pc' # "result"
    \* the orchestrator returns, it does not throw: after a failure
    \* success is false, no later step has run, and stepsCompleted are the
    \* steps finished before
    /\ p_pc' = "result" =>
           /\ p_result'.stepsCompleted = p_steps
           /\ p_result'.success => (p_pc = "config" /\ StepsOf(p_steps) \ {"Main Idea"} # StepsOf(p_steps))
           /\ p_pc # "config" => ~p_result'.success
    \* the tool hands success and stepsCompleted on
    /\ p_pc' = "done" =>
           /\ p_ret'.success = p_result.success
           /\ p_ret'.stepsCompleted = p_steps
           /\ \A i, j \in 1..Len(p_steps) :
                  i < j => StepRank(p_steps[i]) < StepRank(p_steps[j])

(* C30: initialize_project runs its steps in the fixed order Story         *)
(* Architecture, Main Idea, Idea Development, Slides Deck, Assets Deck,     *)
(* project configuration; when a step fails the call does not throw, it     *)
(* returns success = false with stepsCompleted the steps that finished      *)
(* before the failure, and runs no later step; on success stepsCompleted    *)
(* contains Main Idea.                                                      *)
C30_StepsInOrderFailureReported == [][ProjectStepInOrder]_vars

\* the call failed in Idea Development, which the request asked for as it
\* asked for the steps after it: two steps are reported
C30_Witness ==
    /\ p_pc = "done"
    /\ ~p_ret.success
    /\ p_args.processMode = "complete"
    /\ p_ret.stepsCompleted = <<"Story Architecture", "Main Idea">>

\* the call succeeded with all five steps
AllStepsReached ==
    /\ p_pc = "done"
    /\ p_ret.success
    /\ Len(p_ret.stepsCompleted) = 5

====
